---- MODULE Spec2Model ----
(***************************************************************************)
(* Attendance & risk-alert engine of the SAIS academic tracker.            *)
(*                                                                         *)
(* The ledger, the attendance_summary view and the alerts table are taken  *)
(* from backend/schema.sql; the subject card, the dashboard and the pages  *)
(* are taken from the React sources.  The FastAPI services (mark, summary, *)
(* recovery plan, alert engine, conflict rescan) are not part of the       *)
(* sources at hand and are modelled from the design document.              *)
(*                                                                         *)
(* Representation.  A NUMERIC percentage with two decimals is an integer   *)
(* number of hundredths of a percent (75.00 is 7500).  A nullable value is *)
(* <<>> for NULL and <<v>> for the value v.  Dates are day numbers.        *)
(***************************************************************************)
EXTENDS Integers, FiniteSets, Sequences, TLC

VARIABLES
    subjects,            \* ids of the rows of table subjects
    attendance_records,  \* rows of table attendance_records
    markReq,             \* POST /attendance/mark requests in flight
    lastMark,            \* outcome of the mark request answered last
    summaries,           \* AttendancePage state: the summaries it loaded
    projector,           \* one recovery projection: its inputs and its result
    today,               \* the current day
    assignments,         \* rows of table assignments, by id
    activities,          \* rows of table activities, by id
    alerts,              \* rows of table alerts
    refreshReq,          \* alert refresh runs in flight
    lastOp,              \* the operation answered last, with its response
    localStorage,        \* the browser's localStorage, by key
    location,            \* window.location: the path the browser is on
    inflight,            \* axios requests sent and not yet answered
    issued,              \* number of access tokens issued so far
    lastStatus,          \* HTTP status of the response handled last
    rejected,            \* tokens carried by a request answered with 401
    authLog,             \* localAuth: its last successful login, a logout since, its last answer
    auth,                \* AuthProvider and LoginPage: which provider, user, loading, pending getMe calls
    modal,               \* AssignmentModal: shown, form, saving, and what it posted last
    documents,           \* documents of the backend: extraction status by id
    uploadPage,          \* UploadPage: docs, upload and reprocess in flight, poll round
    chatDb,              \* conversations of the backend: ids given, ids deleted, exchanges stored
    chat,                \* ChatBotPage: list, active conversation, messages shown, calls in flight
    singleUpload,        \* single-file upload page: result, uploading, timer, polls in flight
    attendancePage,      \* AttendancePage: actionLoading and the handlers that are running, by stage
    dashboard            \* Dashboard: unread alerts shown, mark-read calls in flight, alerts read on the backend

attendanceVars == <<subjects, attendance_records, markReq, lastMark, summaries, projector>>

alertVars == <<today, assignments, activities, alerts, refreshReq, lastOp>>

clientVars == <<localStorage, location, inflight, issued, lastStatus, rejected>>

\* page variables
pageVars == <<authLog, auth, modal, documents, uploadPage, chatDb, chat, singleUpload, attendancePage, dashboard>>

except_authLog == <<auth, modal, documents, uploadPage, chatDb, chat, singleUpload, attendancePage, dashboard>>

except_auth == <<authLog, modal, documents, uploadPage, chatDb, chat, singleUpload, attendancePage, dashboard>>

except_modal == <<authLog, auth, documents, uploadPage, chatDb, chat, singleUpload, attendancePage, dashboard>>

except_documents == <<authLog, auth, modal, uploadPage, chatDb, chat, singleUpload, attendancePage, dashboard>>

except_uploadPage == <<authLog, auth, modal, documents, chatDb, chat, singleUpload, attendancePage, dashboard>>

except_chatDb == <<authLog, auth, modal, documents, uploadPage, chat, singleUpload, attendancePage, dashboard>>

except_chat == <<authLog, auth, modal, documents, uploadPage, chatDb, singleUpload, attendancePage, dashboard>>

except_singleUpload == <<authLog, auth, modal, documents, uploadPage, chatDb, chat, attendancePage, dashboard>>

except_attendancePage == <<authLog, auth, modal, documents, uploadPage, chatDb, chat, singleUpload, dashboard>>

except_dashboard == <<authLog, auth, modal, documents, uploadPage, chatDb, chat, singleUpload, attendancePage>>

except_documents_uploadPage == <<authLog, auth, modal, chatDb, chat, singleUpload, attendancePage, dashboard>>

except_chatDb_chat == <<authLog, auth, modal, documents, uploadPage, singleUpload, attendancePage, dashboard>>

except_documents_singleUpload == <<authLog, auth, modal, uploadPage, chatDb, chat, attendancePage, dashboard>>

\* Every page as it is before it is opened.
IdlePages ==
    /\ authLog = [login |-> <<>>, loggedOut |-> FALSE, last |-> [op |-> "none", status |-> 0, data |-> <<>>]]
    /\ auth = [provider |-> "none", user |-> <<>>, loading |-> TRUE, pending |-> 0, submitting |-> FALSE, error |-> "", redirected |-> FALSE]
    /\ modal = [open |-> FALSE, form |-> [title |-> "", subject |-> "", task_type |-> "assignment", description |-> "", deadline |-> "", priority |-> "medium"], saving |-> FALSE, posted |-> <<>>]
    /\ documents = [d \in {1, 2} |-> "none"]
    /\ uploadPage = [docs |-> {}, results |-> <<>>, reprocessing |-> {}, round |-> <<>>]
    /\ chatDb = [created |-> 0, deleted |-> {}, exchanges |-> <<>>]
    /\ chat = [conversations |-> {}, activeConvId |-> 0, messages |-> <<>>, sending |-> FALSE, send |-> <<>>, selecting |-> {}, creating |-> 0, deleting |-> {}]
    /\ singleUpload = [result |-> <<>>, uploading |-> FALSE, timer |-> FALSE, upload |-> FALSE, polls |-> {}, observed |-> {}]
    /\ attendancePage = [actionLoading |-> FALSE, marks |-> <<0, 0, 0>>, deletes |-> <<0, 0, 0>>]
    /\ dashboard = [alerts |-> {}, reading |-> {}, refreshing |-> FALSE, is_read |-> {}]
\* end of page variables

vars == <<subjects, attendance_records, markReq, lastMark, summaries, projector,
          today, assignments, activities, alerts, refreshReq, lastOp,
          localStorage, location, inflight, issued, lastStatus, rejected,
          authLog, auth, modal, documents, uploadPage, chatDb, chat, singleUpload, attendancePage, dashboard>>

\* ---------------------------------------------------------------- bounds
MaxRequests == 2
NumClasses == 4
MaxTotal == 10
MaxAssignments == 3
MaxRefreshers == 2
MaxAlertCopies == 2
MaxTokens == 2
MaxConversations == 2
MaxSends == 2
MaxCalls == 3

\* The subjects of the user, and the class dates of the term.
SubjectIds == {1, 2}
ClassDates == 1..NumClasses
Requests == 1..MaxRequests

\* const todayDate = format(new Date(), "yyyy-MM-dd"): the date every mark
\* of the attendance page is for.
todayDate == 1

\* ------------------------------------------------------- nullable values
NULL == <<>>

Some(v) == <<v>>

IsNull(n) == n = NULL

Val(n) == n[1]

MaxOfSecond(a, b) == b

Max(a, b) == IF a >= b THEN a ELSE b

\* --------------------------------------------------------------- ledger
\* status VARCHAR(20) CHECK (status IN (...))
AttendanceStatus == {"present", "absent", "late", "excused"}

\* The rows stored for one subject and date.  A row is identified by its
\* subject, its date and id, the serial number of the row among them (rows
\* are never deleted one by one, so the serial is never reused).
RowsAt(rows, s, d) == {r \in rows : r.subject_id = s /\ r.class_date = d}

\* UNIQUE(user_id, subject_id, class_date): the insert of row is accepted
\* only when no stored row has the same subject and date.
UniqueOkNoCheck(rows, row) == TRUE

UniqueOk(rows, row) ==
    \A r \in rows : ~(r.subject_id = row.subject_id /\ r.class_date = row.class_date)

\* subject_id REFERENCES subjects(id)
ForeignKeyOk(row) == row.subject_id \in subjects

IdleReq == [pc |-> "idle", subject_id |-> 0, class_date |-> 0, status |-> "none",
            found |-> 0]

\* The idle state of the projector, used by the specifications that do not
\* run it.
IdleProjector == [present |-> 0, total |-> 0, target |-> 0,
                  plan |-> [kind |-> "none", x |-> 0], card |-> NULL]

RequestSlots == {1, 2}

IdleRequest == [kind |-> "none", Authorization |-> NULL]

\* ensureDummyUser: the user seeded when localAuth is loaded.
DummyUser ==
    [id |-> 1, email |-> "demo@sais.edu", username |-> "demo",
     full_name |-> "Demo Student", password |-> "password123"]

\* A browser that holds no token, is on the login page and has sent nothing;
\* the user list holds the seeded user.
IdleClient ==
    /\ localStorage = [sais_token |-> NULL, sais_session |-> NULL,
                       sais_users |-> <<DummyUser>>]
    /\ location = "/login"
    /\ inflight = [k \in RequestSlots |-> IdleRequest]
    /\ issued = 0
    /\ lastStatus = 0
    /\ rejected = {}

\* Empty assignment, activity and alert tables, with no refresh in flight.
NoAlertData ==
    /\ today = 0
    /\ assignments = <<>>
    /\ activities = <<>>
    /\ alerts = {}
    /\ refreshReq = <<>>
    /\ lastOp = [op |-> "none"]

\* POST /attendance/subjects
AddSubject(s) ==
    /\ s \notin subjects
    /\ subjects' = subjects \cup {s}
    /\ UNCHANGED <<attendance_records, markReq, lastMark, summaries, projector, alertVars, clientVars, pageVars>>

\* POST /attendance/mark, first half: look the (subject, date) row up.
MarkSelect(q, s, d, st) ==
    /\ markReq[q].pc = "idle"
    /\ s \in subjects
    /\ LET hits == RowsAt(attendance_records, s, d)
       IN  \E f \in (IF hits = {} THEN {0} ELSE {r.id : r \in hits}) :
               markReq' = [markReq EXCEPT ![q] =
                   [pc |-> "selected", subject_id |-> s, class_date |-> d,
                    status |-> st, found |-> f]]
    /\ UNCHANGED <<subjects, attendance_records, lastMark, summaries, projector, alertVars, clientVars, pageVars>>

\* POST /attendance/mark, second half: update the row found, or insert a new
\* one; the insert is subject to the table's constraints.
MarkWrite(q) ==
    LET m == markReq[q]
        row == [id |-> Cardinality(RowsAt(attendance_records, m.subject_id, m.class_date)) + 1,
                subject_id |-> m.subject_id,
                class_date |-> m.class_date, status |-> m.status]
    IN  /\ m.pc = "selected"
        /\ IF m.found # 0
           THEN /\ attendance_records' =
                       {IF r.subject_id = m.subject_id /\ r.class_date = m.class_date
                              /\ r.id = m.found
                        THEN [r EXCEPT !.status = m.status] ELSE r
                            : r \in attendance_records}
                /\ lastMark' = "updated"
           ELSE IF UniqueOk(attendance_records, row) /\ ForeignKeyOk(row)
           THEN /\ attendance_records' = attendance_records \cup {row}
                /\ lastMark' = "inserted"
           ELSE /\ attendance_records' = attendance_records
                /\ lastMark' = "integrity_error"
        /\ markReq' = [markReq EXCEPT ![q] = IdleReq]
        /\ UNCHANGED <<subjects, summaries, projector, alertVars, clientVars, pageVars>>

\* ------------------------------------------- view attendance_summary
\* Rows of one GROUP BY group: the ledger rows of subject s that JOIN a row
\* of table subjects.
GroupRows(rows, s) == {r \in rows : r.subject_id = s /\ s \in subjects}

\* COUNT(*) FILTER (WHERE ar.status = st)
CountStatus(rows, st) == Cardinality({r \in rows : r.status = st})

\* COUNT(*) FILTER (WHERE ar.status IN ('present', 'late'))
CountedPresentOnlyPresent(rows) == Cardinality({r \in rows : r.status \in {"present"}})

CountedPresent(rows) == Cardinality({r \in rows : r.status \in {"present", "late"}})

\* NULLIF(a, b)
NULLIF(a, b) == IF a = b THEN NULL ELSE Some(a)

\* n::NUMERIC / d: the quotient rounded to six decimals, as an integer number
\* of millionths (PostgreSQL keeps at least sixteen significant digits; six
\* decimals keep the products inside the integers at hand).  NULL if d is.
NumericDiv(n, d) ==
    IF IsNull(d) THEN NULL
    ELSE Some((2 * n * 1000000 + Val(d)) \div (2 * Val(d)))

\* ROUND(q * 100, 2) for q in millionths: hundredths of a percent, halves
\* rounded away from zero.  NULL if q is.
RoundPct(q) == IF IsNull(q) THEN NULL ELSE Some((Val(q) + 50) \div 100)

\* ROUND((COUNT(*) FILTER (...)::NUMERIC / NULLIF(COUNT(*), 0)) * 100, 2)
AttendancePercentage(rows) ==
    RoundPct(NumericDiv(CountedPresent(rows), NULLIF(Cardinality(rows), 0)))

\* CASE WHEN ROUND(...) < 75 THEN TRUE ELSE FALSE END; a NULL comparison is
\* not true, so the CASE yields FALSE.
BelowThresholdAtMost(pct) == IF ~IsNull(pct) /\ Val(pct) <= 7500 THEN TRUE ELSE FALSE

BelowThreshold(pct) == IF ~IsNull(pct) /\ Val(pct) < 7500 THEN TRUE ELSE FALSE

\* One row of the view, for the group of subject s.
ViewRow(rows, s) ==
    LET g == GroupRows(rows, s)
    IN  [subject_id |-> s,
         total_classes |-> Cardinality(g),
         present_count |-> CountStatus(g, "present"),
         late_count |-> CountStatus(g, "late"),
         absent_count |-> CountStatus(g, "absent"),
         attendance_percentage |-> AttendancePercentage(g),
         below_threshold |-> BelowThreshold(AttendancePercentage(g))]

\* The view: one row per group, and a group has at least one ledger row.
attendance_summary(rows) ==
    {ViewRow(rows, s) : s \in {r.subject_id : r \in {x \in rows : x.subject_id \in subjects}}}

\* GET /attendance/summary: one summary per subject of the user; a subject
\* without records has no percentage.
NoDataSummary(s) ==
    [subject_id |-> s, total_classes |-> 0, present_count |-> 0, late_count |-> 0,
     absent_count |-> 0, attendance_percentage |-> NULL, below_threshold |-> FALSE]

GetSummary(rows) ==
    attendance_summary(rows) \cup
        {NoDataSummary(s) : s \in {x \in subjects : GroupRows(rows, x) = {}}}

\* ------------------------------------------------------- subject card
\* ToNumber of a JSON number or null: null converts to 0.
ToNumber(n) == IF IsNull(n) THEN 0 ELSE Val(n)

\* Math.round of a value given in hundredths: the nearest integer, halves up.
MathRound(h) == (h + 50) \div 100

\* const classesNeeded = Math.max(0, 3 * total_classes - 4 * present_count)
classesNeededThreeTimes(total_classes, present_count) ==
    Max(0, 3 * total_classes - 3 * present_count)

classesNeeded(total_classes, present_count) ==
    Max(0, 3 * total_classes - 4 * present_count)

\* {Math.round(attendance_percentage)}%
CardPercent(sm) == MathRound(ToNumber(sm.attendance_percentage))

\* getTheme(attendance_percentage)
getTheme(pct) ==
    IF ToNumber(pct) >= 8500 THEN "emerald"
    ELSE IF ToNumber(pct) >= 7500 THEN "amber" ELSE "rose"

\* The insight box of the card: the warning with classesNeeded, the safe
\* zone note or the watch-out note.
CardBox(sm) ==
    IF sm.below_threshold THEN "below_threshold"
    ELSE IF ToNumber(sm.attendance_percentage) >= 8500 THEN "safe_zone"
    ELSE "watch_out"

\* What one SubjectCard renders for a summary.
SubjectCard(sm) ==
    [percent |-> CardPercent(sm),
     theme |-> getTheme(sm.attendance_percentage),
     box |-> CardBox(sm),
     classesNeeded |-> classesNeeded(sm.total_classes, sm.present_count)]

\* Dashboard: summaries.length ? Math.round(sum / summaries.length) : 0, the
\* sum being of attendance_percentage, where null adds 0.
RECURSIVE SumPct(_)
SumPct(S) ==
    IF S = {} THEN 0
    ELSE LET sm == CHOOSE x \in S : TRUE
         IN  ToNumber(sm.attendance_percentage) + SumPct(S \ {sm})

avgAttendance(S) ==
    IF Cardinality(S) # 0
    THEN (2 * SumPct(S) + 100 * Cardinality(S)) \div (200 * Cardinality(S))
    ELSE 0

\* AttendancePage.loadData: const { data } = await getSummary();
\* setSummaries(data)
loadData ==
    /\ summaries.loaded = FALSE
    /\ summaries' = [loaded |-> TRUE, data |-> GetSummary(attendance_records)]
    /\ UNCHANGED <<subjects, attendance_records, markReq, lastMark, projector, alertVars, clientVars, pageVars>>

\* useState([])
NoSummaries == [loaded |-> FALSE, data |-> {}]

Init ==
    /\ IdleClient
    /\ IdlePages
    /\ subjects = {}
    /\ attendance_records = {}
    /\ markReq = [q \in Requests |-> IdleReq]
    /\ lastMark = "none"
    /\ summaries = NoSummaries
    /\ projector = IdleProjector
    /\ NoAlertData

Next ==
    \/ \E s \in SubjectIds : AddSubject(s)
    \/ \E q \in Requests, s \in SubjectIds, st \in AttendanceStatus :
           MarkSelect(q, s, todayDate, st)
    \/ \E q \in Requests : MarkWrite(q)

Spec == Init /\ [][Next]_vars

\* A ledger of the first subject over the class dates of the term, and of the
\* other subjects over today: f gives the status marked, or "none".
LedgerOf(f) ==
    {[id |-> 1, subject_id |-> k[1], class_date |-> k[2], status |-> f[k]] :
        k \in {c \in DOMAIN f : f[c] # "none"}}

LedgerCells(subs) ==
    {c \in SubjectIds \X ClassDates : c[1] \in subs /\ (c[1] = 1 \/ c[2] = todayDate)}

\* The summary page opened on a ledger that marks have filled.
InitSummary ==
    /\ IdleClient
    /\ IdlePages
    /\ subjects \in {{}, {1}, SubjectIds}
    /\ \E f \in [LedgerCells(subjects) -> AttendanceStatus \cup {"none"}] :
           attendance_records = LedgerOf(f)
    /\ markReq = [q \in Requests |-> IdleReq]
    /\ lastMark = "none"
    /\ summaries = NoSummaries
    /\ projector = IdleProjector
    /\ NoAlertData

NextSummary == loadData

SpecSummary == InitSummary /\ [][NextSummary]_vars

\* C1: after any sequence of mark operations, concurrent ones included, the
\* ledger holds at most one row per (subject_id, class_date), and a re-mark
\* (a mark that found a row) sets the status of that row and adds none.
UniquePerSubjectDate ==
    \A r1 \in attendance_records, r2 \in attendance_records :
        (r1.subject_id = r2.subject_id /\ r1.class_date = r2.class_date) => r1 = r2

RemarkOverwrites ==
    \A q \in Requests :
        (markReq[q].pc = "selected" /\ markReq'[q].pc = "idle" /\ markReq[q].found # 0)
        => /\ Cardinality(attendance_records') = Cardinality(attendance_records)
           /\ \A r \in RowsAt(attendance_records', markReq[q].subject_id,
                              markReq[q].class_date) :
                  r.status = markReq[q].status

C1_AtMostOneRecordPerDate == []UniquePerSubjectDate /\ [][RemarkOverwrites]_vars

\* A re-mark has overwritten a row while a concurrent submit for the same
\* date, which saw no row, is still to insert.
C1_Witness ==
    /\ lastMark = "updated"
    /\ \E q \in Requests :
           /\ markReq[q].pc = "selected"
           /\ markReq[q].found = 0
           /\ RowsAt(attendance_records, markReq[q].subject_id, markReq[q].class_date) # {}

\* -------------------------------------------------- recovery projector
\* The targets of the named scenarios (75%, and 85% for the safe zone), with
\* a lower and an unreachable one.
TargetChoices == {50, 75, 85, 100, 110}

\* The least integer not below a / b, for b > 0.
CeilDiv(a, b) == -((-a) \div b)

\* Malformed input: a negative count, or more present marks than classes.
MalformedCounts(present, total) == present < 0 \/ total < 0 \/ present > total

InsufficientDataNever(total) == FALSE

\* No data: there is no class to project from.
InsufficientData(total) == total = 0

UnreachableTargetOnlyAtHundred(target) == target = 100

\* Invalid target: the denominator 100 - target is zero or negative.
UnreachableTarget(target) == target >= 100

\* GET /attendance/recovery/{id}: the number of further consecutive present
\* marks that reach the target, x >= (target*total - 100*present) /
\* (100 - target) rounded up and clamped at zero, or the error the inputs
\* call for.
RecoveryProjector(present, total, target) ==
    IF MalformedCounts(present, total)
    THEN [kind |-> "validation_error", x |-> 0]
    ELSE IF InsufficientData(total)
    THEN [kind |-> "insufficient_data", x |-> 0]
    ELSE IF UnreachableTarget(target)
    THEN [kind |-> "unreachable_target", x |-> 0]
    ELSE [kind |-> "ok",
          x |-> Max(0, CeilDiv(target * total - 100 * present, 100 - target))]

\* The recovery plan is fetched for the counts at hand.
RecoveryPlan ==
    /\ projector.plan.kind = "none"
    /\ projector' = [projector EXCEPT
           !.plan = RecoveryProjector(projector.present, projector.total, projector.target)]
    /\ UNCHANGED <<subjects, attendance_records, markReq, lastMark, summaries, alertVars, clientVars, pageVars>>

\* The subject card is rendered for the same counts.
RenderCard ==
    /\ IsNull(projector.card)
    /\ projector' = [projector EXCEPT
           !.card = Some(classesNeeded(projector.total, projector.present))]
    /\ UNCHANGED <<subjects, attendance_records, markReq, lastMark, summaries, alertVars, clientVars, pageVars>>

InitProjector ==
    /\ IdleClient
    /\ IdlePages
    /\ subjects = {}
    /\ attendance_records = {}
    /\ markReq = [q \in Requests |-> IdleReq]
    /\ lastMark = "none"
    /\ summaries = NoSummaries
    /\ NoAlertData
    /\ \E p \in (-1)..MaxTotal, t \in 0..MaxTotal, g \in TargetChoices :
           projector = [IdleProjector EXCEPT !.present = p, !.total = t, !.target = g]

NextProjector == RecoveryPlan \/ RenderCard

SpecProjector == InitProjector /\ [][NextProjector]_vars

\* The ledger rows of subject s, read off the table itself.
RecordsOf(s) == {r \in attendance_records : r.subject_id = s}

PresentOrLate(s) == {r \in RecordsOf(s) : r.status = "present" \/ r.status = "late"}

\* C2: for every subject with at least one record, the percentage of the
\* loaded summary is 100 * (present or late records) / (all records) rounded
\* to two decimals, halves up: with P the percentage in hundredths, n the
\* present or late records and t all records, P <= 10000 n / t + 1/2 < P + 1.
\* Excused and absent records are in t and not in n.
C2_PercentageFormula ==
    summaries.loaded =>
        \A s \in subjects :
            RecordsOf(s) # {} =>
                \E sm \in summaries.data :
                    /\ sm.subject_id = s
                    /\ sm.total_classes = Cardinality(RecordsOf(s))
                    /\ ~IsNull(sm.attendance_percentage)
                    /\ LET P == Val(sm.attendance_percentage)
                           n == Cardinality(PresentOrLate(s))
                           t == Cardinality(RecordsOf(s))
                       IN  /\ 2 * P * t <= 20000 * n + t
                           /\ 20000 * n + t < 2 * P * t + 2 * t

\* A loaded summary of 66.67% made of a late, a present and an excused record.
C2_Witness ==
    /\ summaries.loaded
    /\ \E sm \in summaries.data :
           /\ sm.attendance_percentage = Some(6667)
           /\ sm.late_count = 1
           /\ sm.present_count = 1
           /\ \E r \in RecordsOf(sm.subject_id) : r.status = "excused"

\* C3: for every record set with at least one record, the percentage is
\* between 0 and 100 and below_threshold is true exactly when the percentage
\* is less than 75.00.
C3_RangeAndThreshold ==
    summaries.loaded =>
        \A sm \in summaries.data :
            RecordsOf(sm.subject_id) # {} =>
                /\ ~IsNull(sm.attendance_percentage)
                /\ Val(sm.attendance_percentage) >= 0
                /\ Val(sm.attendance_percentage) <= 10000
                /\ sm.below_threshold = (Val(sm.attendance_percentage) < 7500)

\* A subject at exactly 75.00% is not below the threshold, next to one that is
\* below it.
C3_Witness ==
    /\ summaries.loaded
    /\ \E sm \in summaries.data :
           sm.attendance_percentage = Some(7500) /\ sm.below_threshold = FALSE
    /\ \E sm \in summaries.data :
           sm.total_classes > 0 /\ sm.below_threshold = TRUE

\* C4: a subject with zero records is never displayed as 0%: the percent its
\* subject card renders differs from 0, the percent of a real 0% attendance.
C4_NoDataNeverShownAsZero ==
    summaries.loaded =>
        \A sm \in summaries.data :
            RecordsOf(sm.subject_id) = {} => SubjectCard(sm).percent # 0

\* The ledger of subject s after x further class dates marked present.
AfterPresentMarks(s, x) ==
    RecordsOf(s) \cup
        {[id |-> 1, subject_id |-> s, class_date |-> NumClasses + k, status |-> "present"] :
            k \in 1..x}

ReachesThreshold(s, x) ==
    LET pct == AttendancePercentage(AfterPresentMarks(s, x))
    IN  ~IsNull(pct) /\ Val(pct) >= 7500

\* C6: for every summary the card shows as below threshold, the number in
\* "You need N more consecutive present marks to reach 75%" is the least
\* number of further present marks after which the subject's
\* attendance_percentage is at least 75.
C6_CardShowsMinimumMarks ==
    summaries.loaded =>
        \A sm \in summaries.data :
            SubjectCard(sm).box = "below_threshold" =>
                LET N == SubjectCard(sm).classesNeeded
                IN  /\ ReachesThreshold(sm.subject_id, N)
                    /\ \A y \in 0..(N - 1) : ~ReachesThreshold(sm.subject_id, y)

ValidProjection ==
    /\ 0 <= projector.present
    /\ projector.present <= projector.total
    /\ projector.total > 0
    /\ projector.target < 100

\* x further present marks bring present / total to at least target percent.
MeetsTarget(x, target) ==
    100 * (projector.present + x) >= target * (projector.total + x)

IsMinimalMarks(x, target) ==
    /\ x >= 0
    /\ MeetsTarget(x, target)
    /\ x > 0 => ~MeetsTarget(x - 1, target)

\* C5: for valid inputs the projector returns the least non-negative x with
\* (present + x) / (total + x) >= target / 100, x meets the target and x - 1
\* does not; target 75, present 2, total 10 give 22.  The count the subject
\* card computes for the same inputs is that minimum for target 75.
C5_MinimumMarks ==
    ValidProjection =>
        /\ projector.plan.kind # "none" =>
               /\ projector.plan.kind = "ok"
               /\ IsMinimalMarks(projector.plan.x, projector.target)
               /\ (projector.present = 2 /\ projector.total = 10 /\ projector.target = 75)
                      => projector.plan.x = 22
        /\ (~IsNull(projector.card) /\ projector.target = 75) =>
               IsMinimalMarks(Val(projector.card), 75)

\* Present 2 of 10 with target 75: both the plan and the card say 22.
C5_Witness ==
    /\ projector.present = 2
    /\ projector.total = 10
    /\ projector.target = 75
    /\ projector.plan = [kind |-> "ok", x |-> 22]
    /\ projector.card = Some(22)

\* ------------------------------------------------------ alert classifier
Users == {"u1", "u2"}

AssignmentIds == 1..MaxAssignments

Refreshers == 1..MaxRefreshers

\* subjects.user_id: the first subject is the first user's, the others the
\* second user's.
SubjectUser(s) == IF s = 1 THEN "u1" ELSE "u2"

\* The rule constants: 3+ deadlines in 7 days, a deadline within 24 hours
\* (one day, deadlines being dates), the conflict window of one day.
OverloadCount == 3
OverloadDays == 7
DeadlineSoonDays == 1
ConflictWindowDays == 1

\* alert_type and severity CHECK constraints of table alerts; the table has
\* no other constraint on a new row.
AlertTypes == {"overload", "attendance_low", "activity_conflict", "deadline_soon", "custom"}

Severities == {"info", "warning", "critical"}

AlertInsertOk(rows, row) == row.alert_type \in AlertTypes /\ row.severity \in Severities

\* What identifies the condition an alert is about.
AlertKey(a) ==
    <<a.user_id, a.alert_type, a.related_assignment_id, a.related_activity_id,
      a.related_subject_id>>

Intent(u, type, sev, asg, act, sub) ==
    [user_id |-> u, alert_type |-> type, severity |-> sev,
     related_assignment_id |-> asg, related_activity_id |-> act,
     related_subject_id |-> sub]

AssignmentsOfAnyUser(u) == DOMAIN assignments

AssignmentsOf(u) == {i \in DOMAIN assignments : assignments[i].user_id = u}

ActivitiesOf(u) == {a \in DOMAIN activities : activities[a].user_id = u}

DueWithin(i, days) ==
    /\ ~IsNull(assignments[i].deadline)
    /\ today <= Val(assignments[i].deadline)
    /\ Val(assignments[i].deadline) <= today + days

\* Overload: 3 or more assignments that are not completed and due in
\* [now, now + 7d].
OverloadedAtTwo(u) ==
    Cardinality({i \in AssignmentsOf(u) :
        assignments[i].status # "completed" /\ DueWithin(i, OverloadDays)}) >= 2

Overloaded(u) ==
    Cardinality({i \in AssignmentsOf(u) :
        assignments[i].status # "completed" /\ DueWithin(i, OverloadDays)}) >= OverloadCount

OverloadIntents(u) ==
    IF Overloaded(u)
    THEN {Intent(u, "overload", "critical", NULL, NULL, NULL)}
    ELSE {}

\* Attendance low: one alert per subject whose summary is below threshold.
AttendanceLowIntents(u) ==
    {Intent(u, "attendance_low", "critical", NULL, NULL, Some(sm.subject_id)) :
        sm \in {x \in GetSummary(attendance_records) :
                    SubjectUser(x.subject_id) = u /\ x.below_threshold}}

DeadlineSoonIntentsAlsoCompleted(u) ==
    {Intent(u, "deadline_soon", "warning", Some(i), NULL, NULL) :
        i \in {j \in AssignmentsOf(u) : DueWithin(j, DeadlineSoonDays)}}

\* Deadline soon: an assignment that is not completed and due within 24h.
DeadlineSoonIntents(u) ==
    {Intent(u, "deadline_soon", "warning", Some(i), NULL, NULL) :
        i \in {j \in AssignmentsOf(u) :
                  assignments[j].status # "completed" /\ DueWithin(j, DeadlineSoonDays)}}

\* The deadline of assignment i falls within the conflict window of day d.
InConflictWindowSameDay(d, i) ==
    ~IsNull(assignments[i].deadline) /\ Val(assignments[i].deadline) = d

InConflictWindow(d, i) ==
    /\ ~IsNull(assignments[i].deadline)
    /\ Val(assignments[i].deadline) - d <= ConflictWindowDays
    /\ d - Val(assignments[i].deadline) <= ConflictWindowDays

\* Activity conflict: an activity within the window of an assignment deadline.
ConflictIntents(u) ==
    {Intent(u, "activity_conflict", "warning", Some(c[2]), Some(c[1]), NULL) :
        c \in {x \in ActivitiesOf(u) \X AssignmentsOf(u) :
                  InConflictWindow(activities[x[1]].activity_date, x[2])}}

\* One pass of the classifier: every rule, each on its own.
AlertIntents(u) ==
    OverloadIntents(u) \cup AttendanceLowIntents(u) \cup DeadlineSoonIntents(u)
        \cup ConflictIntents(u)

\* Upsert by key: an intent is new unless an unread alert has its key.
MissingIntentsNoLookup(intents, rows) == intents

MissingIntents(intents, rows) ==
    {i \in intents : ~\E a \in rows : ~a.is_read /\ AlertKey(a) = AlertKey(i)}

AlertCopies(rows, key) == Cardinality({a \in rows : AlertKey(a) = key})

NewAlertAlreadyRead(i, rows) ==
    [id |-> AlertCopies(rows, AlertKey(i)) + 1, user_id |-> i.user_id,
     alert_type |-> i.alert_type, severity |-> i.severity, is_read |-> TRUE,
     related_assignment_id |-> i.related_assignment_id,
     related_activity_id |-> i.related_activity_id,
     related_subject_id |-> i.related_subject_id]

\* The row inserted for an intent: unread, numbered after the rows of its key.
NewAlert(i, rows) ==
    [id |-> AlertCopies(rows, AlertKey(i)) + 1, user_id |-> i.user_id,
     alert_type |-> i.alert_type, severity |-> i.severity, is_read |-> FALSE,
     related_assignment_id |-> i.related_assignment_id,
     related_activity_id |-> i.related_activity_id,
     related_subject_id |-> i.related_subject_id]

IdleRefresh == [pc |-> "idle", user_id |-> "none", missing |-> {}, failed |-> {}]

NoRefreshInFlight == \A p \in DOMAIN refreshReq : refreshReq[p].pc = "idle"

\* POST /alerts/refresh (and GET /alerts, which refreshes first), first
\* half: read the user's data and unread alerts, and decide what to insert.
RefreshRead(p, u) ==
    /\ refreshReq[p].pc = "idle"
    /\ refreshReq' = [refreshReq EXCEPT ![p] =
           [pc |-> "write", user_id |-> u,
            missing |-> MissingIntents(AlertIntents(u), alerts), failed |-> {}]]
    /\ UNCHANGED <<pageVars, clientVars, attendanceVars, today, assignments, activities, alerts, lastOp>>

\* Second half: insert the alerts decided on and answer with their number.
RefreshWrite(p) ==
    LET r == refreshReq[p]
        new == {NewAlert(i, alerts) : i \in r.missing}
    IN  /\ r.pc = "write"
        /\ \A a \in new : a.id <= MaxAlertCopies
        /\ alerts' = alerts \cup {a \in new : AlertInsertOk(alerts, a)}
        /\ refreshReq' = [refreshReq EXCEPT ![p] = IdleRefresh]
        /\ lastOp' = [op |-> "refresh", user_id |-> r.user_id,
                      generated |-> {a \in new : AlertInsertOk(alerts, a)}]
        /\ UNCHANGED <<pageVars, clientVars, attendanceVars, today, assignments, activities>>

\* PATCH /alerts/{id}/read
MarkAlertRead(a) ==
    /\ a \in alerts
    /\ ~a.is_read
    /\ alerts' = (alerts \ {a}) \cup {[a EXCEPT !.is_read = TRUE]}
    /\ lastOp' = [op |-> "mark_read"]
    /\ UNCHANGED <<pageVars, clientVars, attendanceVars, today, assignments, activities, refreshReq>>

\* PATCH /assignments/{id} with status completed
CompleteAssignment(i) ==
    /\ i \in DOMAIN assignments
    /\ assignments[i].status # "completed"
    /\ assignments' = [assignments EXCEPT ![i].status = "completed"]
    /\ lastOp' = [op |-> "data"]
    /\ UNCHANGED <<pageVars, clientVars, attendanceVars, today, activities, alerts, refreshReq>>

Assignment(u, d, st) == [user_id |-> u, deadline |-> d, status |-> st]

\* The deadlines around the rules' boundaries, and none.
DeadlineChoices == {NULL} \cup {Some(d) : d \in {-1, 0, 1, 2, 7, 8}}

AssignmentChoices ==
    {Assignment("u1", d, st) : d \in DeadlineChoices, st \in {"pending", "completed"}}
        \cup {Assignment("u2", Some(0), "pending")}

\* A ledger with at most one record, of the first subject for today.
SmallLedgers ==
    {{}} \cup {{[id |-> 1, subject_id |-> 1, class_date |-> todayDate, status |-> st]} :
                  st \in {"present", "absent"}}

\* One pass over a snapshot of the user's data, the alert table being empty.
InitClassifier ==
    /\ IdleClient
    /\ IdlePages
    /\ subjects = SubjectIds
    /\ attendance_records \in SmallLedgers
    /\ markReq = [q \in Requests |-> IdleReq]
    /\ lastMark = "none"
    /\ summaries = NoSummaries
    /\ projector = IdleProjector
    /\ today = 0
    /\ assignments \in [AssignmentIds -> AssignmentChoices]
    /\ activities = <<>>
    /\ alerts = {}
    /\ refreshReq = [p \in {1} |-> IdleRefresh]
    /\ lastOp = [op |-> "none"]

NextClassifier ==
    \/ \E u \in Users : RefreshRead(1, u)
    \/ RefreshWrite(1)

SpecClassifier == InitClassifier /\ [][NextClassifier]_vars

\* The assignments the refresh runs start from: the first is due today or in
\* a week, the others in a week; all are the first user's and pending.
SampleAssignments ==
    {f \in [AssignmentIds -> {Assignment("u1", Some(0), "pending"),
                              Assignment("u1", Some(7), "pending")}] :
        \A i \in AssignmentIds : i > 1 => f[i].deadline = Some(7)}

InitAlerts ==
    /\ IdleClient
    /\ IdlePages
    /\ subjects = SubjectIds
    /\ attendance_records \in SmallLedgers
    /\ markReq = [q \in Requests |-> IdleReq]
    /\ lastMark = "none"
    /\ summaries = NoSummaries
    /\ projector = IdleProjector
    /\ today = 0
    /\ assignments \in SampleAssignments
    /\ activities = <<>>
    /\ alerts = {}
    /\ refreshReq = [p \in Refreshers |-> IdleRefresh]
    /\ lastOp = [op |-> "none"]

\* Requests served one after the other: a refresh run ends before the next
\* request starts.
NextAlerts ==
    \/ \E p \in Refreshers, u \in Users : NoRefreshInFlight /\ RefreshRead(p, u)
    \/ \E p \in Refreshers : RefreshWrite(p)
    \/ \E a \in alerts : NoRefreshInFlight /\ MarkAlertRead(a)
    \/ \E i \in AssignmentIds : NoRefreshInFlight /\ CompleteAssignment(i)

SpecAlerts == InitAlerts /\ [][NextAlerts]_vars

\* Refresh runs that overlap.
NextAlertsRace ==
    \/ \E p \in Refreshers, u \in Users : RefreshRead(p, u)
    \/ \E p \in Refreshers : RefreshWrite(p)
    \/ \E a \in alerts : MarkAlertRead(a)

SpecAlertsRace == InitAlerts /\ [][NextAlertsRace]_vars

SameCondition(a, b) ==
    /\ a.user_id = b.user_id
    /\ a.alert_type = b.alert_type
    /\ a.related_assignment_id = b.related_assignment_id
    /\ a.related_activity_id = b.related_activity_id
    /\ a.related_subject_id = b.related_subject_id

NoDuplicateUnread ==
    \A a \in alerts, b \in alerts :
        (~a.is_read /\ ~b.is_read /\ SameCondition(a, b)) => a = b

\* A run for a user that ends right after a run for the same user, nothing
\* else having been answered in between, inserts nothing.
SecondRunAddsNothing ==
    \A p \in DOMAIN refreshReq :
        (/\ refreshReq[p].pc = "write"
         /\ refreshReq'[p].pc = "idle"
         /\ lastOp.op = "refresh"
         /\ lastOp.user_id = refreshReq[p].user_id)
        => (alerts' = alerts /\ lastOp'.generated = {})

\* C7: classifier runs for a user one after the other never leave two unread
\* alerts for the same (alert_type, related entity), and the second of two
\* runs on unchanged data adds no alert.
C7_Idempotent == []NoDuplicateUnread /\ [][SecondRunAddsNothing]_vars

\* A run has just ended without inserting anything while the user has unread
\* alerts of two types from an earlier run.
C7_Witness ==
    /\ lastOp.op = "refresh"
    /\ lastOp.generated = {}
    /\ \E a \in alerts, b \in alerts :
           /\ a.user_id = lastOp.user_id /\ ~a.is_read /\ a.alert_type = "overload"
           /\ b.user_id = lastOp.user_id /\ ~b.is_read /\ b.alert_type = "attendance_low"

\* C8: refresh runs for the same user that overlap in time never leave two
\* unread alerts for the same (alert_type, related entity), whatever the
\* interleaving of their reads and writes.
C8_NoDuplicateUnreadWhenOverlapping ==
    \A a \in alerts, b \in alerts :
        (a.is_read = FALSE /\ b.is_read = FALSE /\ SameCondition(a, b)) => a.id = b.id

\* The assignments of user u that count towards overload, read off the table.
OpenDueInSevenDays(u) ==
    {i \in DOMAIN assignments :
        /\ assignments[i].user_id = u
        /\ assignments[i].status # "completed"
        /\ assignments[i].deadline # NULL
        /\ assignments[i].deadline[1] >= today
        /\ assignments[i].deadline[1] <= today + 7}

OverloadAlerts(u) == {a \in alerts : a.user_id = u /\ a.alert_type = "overload"}

\* C9: after a pass for a user there is exactly one overload alert, of
\* severity critical, when the user has at least 3 assignments that are not
\* completed and due within 7 days, and none when there are 2 or fewer.
C9_OverloadBoundary ==
    lastOp.op = "refresh" =>
        LET u == lastOp.user_id
        IN  /\ Cardinality(OpenDueInSevenDays(u)) >= 3 =>
                   /\ Cardinality(OverloadAlerts(u)) = 1
                   /\ \A a \in OverloadAlerts(u) : a.severity = "critical"
            /\ Cardinality(OpenDueInSevenDays(u)) <= 2 =>
                   /\ OverloadAlerts(u) = {}
                   /\ \A a \in lastOp.generated : a.alert_type # "overload"

\* A pass has raised the overload alert for exactly 3 open assignments, due
\* today and in 7 days, a fourth one being due in 8 days or done.
C9_Witness ==
    /\ lastOp.op = "refresh"
    /\ Cardinality(OpenDueInSevenDays(lastOp.user_id)) = 3
    /\ \E i \in OpenDueInSevenDays(lastOp.user_id) : assignments[i].deadline = Some(today)
    /\ \E i \in OpenDueInSevenDays(lastOp.user_id) : assignments[i].deadline = Some(today + 7)
    /\ \E a \in lastOp.generated : a.alert_type = "overload" /\ a.severity = "critical"

\* ---------------------------------------------------------------------
\* Activities and the conflict rescan
\* ---------------------------------------------------------------------

ActivityIds == {1, 2}

\* The dates an activity is put on: from one day before the first deadline
\* to three days after it.
ActivityDates == {2, 3, 4, 5, 6}

\* activities row: has_conflict BOOLEAN DEFAULT FALSE, conflict_detail NULL.
Activity(u, d) ==
    [user_id |-> u, activity_date |-> d, has_conflict |-> FALSE,
     conflict_detail |-> NULL]

\* POST /activities
createActivity(u, d) ==
    /\ Len(activities) + 1 \in ActivityIds
    /\ activities' = Append(activities, Activity(u, d))
    /\ lastOp' = [op |-> "data"]
    /\ UNCHANGED <<pageVars, clientVars, attendanceVars, today, assignments, alerts, refreshReq>>

\* PUT /activities/{id}: the activity is moved to another date; the flag is
\* the classifier's to write and stays as it is.
updateActivity(a, d) ==
    /\ a \in DOMAIN activities
    /\ activities[a].activity_date # d
    /\ activities' = [activities EXCEPT ![a].activity_date = d]
    /\ lastOp' = [op |-> "data"]
    /\ UNCHANGED <<pageVars, clientVars, attendanceVars, today, assignments, alerts, refreshReq>>

\* The user's assignments whose deadline falls in the window of activity a.
Colliding(a) ==
    {i \in AssignmentsOf(activities[a].user_id) :
        InConflictWindow(activities[a].activity_date, i)}

\* POST /activities/refresh-conflicts: a full rescan of the user's
\* activities; conflict_detail names one of the colliding assignments.
refreshConflicts(u) ==
    \E pick \in [ActivitiesOf(u) -> AssignmentIds \cup {0}] :
        /\ \A a \in ActivitiesOf(u) :
               IF Colliding(a) = {} THEN pick[a] = 0 ELSE pick[a] \in Colliding(a)
        /\ activities' =
               [a \in DOMAIN activities |->
                   IF activities[a].user_id = u
                   THEN [activities[a] EXCEPT
                            !.has_conflict = (Colliding(a) # {}),
                            !.conflict_detail =
                                IF pick[a] = 0 THEN NULL ELSE Some(pick[a])]
                   ELSE activities[a]]
        /\ lastOp' = [op |-> "refresh_conflicts", user_id |-> u,
                      flagged |-> {a \in ActivitiesOf(u) :
                                      ~activities[a].has_conflict /\ Colliding(a) # {}},
                      cleared |-> {a \in ActivitiesOf(u) :
                                      activities[a].has_conflict /\ Colliding(a) = {}}]
        /\ UNCHANGED <<pageVars, clientVars, attendanceVars, today, assignments, alerts, refreshReq>>

\* The first assignment is the first user's, due on day 3 or without a
\* deadline; the second is due on day 6 and is either user's; the others
\* have no deadline.
ConflictAssignments ==
    {f \in [AssignmentIds -> {Assignment("u1", Some(3), "pending"),
                              Assignment("u1", NULL, "pending"),
                              Assignment("u1", Some(6), "pending"),
                              Assignment("u2", Some(6), "pending")}] :
        /\ f[1].user_id = "u1" /\ f[1].deadline # Some(6)
        /\ \A i \in AssignmentIds :
               /\ i = 2 => f[i].deadline = Some(6)
               /\ i > 2 => f[i] = Assignment("u1", NULL, "pending")}

InitConflicts ==
    /\ IdleClient
    /\ IdlePages
    /\ subjects = SubjectIds
    /\ attendance_records = {}
    /\ markReq = [q \in Requests |-> IdleReq]
    /\ lastMark = "none"
    /\ summaries = NoSummaries
    /\ projector = IdleProjector
    /\ today = 0
    /\ assignments \in ConflictAssignments
    /\ activities = <<>>
    /\ alerts = {}
    /\ refreshReq = <<>>
    /\ lastOp = [op |-> "none"]

NextConflicts ==
    \/ \E u \in Users, d \in ActivityDates : createActivity(u, d)
    \/ \E a \in ActivityIds, d \in ActivityDates : updateActivity(a, d)
    \/ \E u \in Users : refreshConflicts(u)

SpecConflicts == InitConflicts /\ [][NextConflicts]_vars

\* Some assignment of user u has its deadline at most one day from date d.
DeadlineWithinOneDay(u, d) ==
    \E i \in DOMAIN assignments :
        /\ assignments[i].user_id = u
        /\ assignments[i].deadline # NULL
        /\ assignments[i].deadline[1] \in {d - 1, d, d + 1}

CreatedUnread ==
    \A b \in alerts' \ alerts :
        b.is_read => [b EXCEPT !.is_read = FALSE] \in alerts

\* A read row is in the table after the step, every field as it was.
ReadStaysAsItIs == \A a \in alerts : a.is_read => a \in alerts'

\* C11: an alert is created unread and only moves to read; a read alert
\* never becomes unread again and no later classifier run changes any of
\* its fields.
C11_ReadIsTerminal == [][CreatedUnread /\ ReadStaysAsItIs]_vars

\* A classifier run has just raised a new alert for a condition whose
\* earlier alert had been read; the read one is still there.
C11_Witness ==
    /\ lastOp.op = "refresh"
    /\ \E a \in alerts, b \in lastOp.generated :
           a.is_read /\ ~b.is_read /\ b \in alerts /\ SameCondition(a, b)

\* ---------------------------------------------------------------------
\* Two users side by side
\* ---------------------------------------------------------------------

\* Both users have an assignment due tomorrow (day 3, today being day 2),
\* or the second user's is due on day 6; further assignments have no
\* deadline.
TwoUserAssignments ==
    {f \in [AssignmentIds -> {Assignment("u1", Some(3), "pending"),
                              Assignment("u2", Some(3), "pending"),
                              Assignment("u2", Some(6), "pending"),
                              Assignment("u1", NULL, "pending")}] :
        /\ f[1] = Assignment("u1", Some(3), "pending")
        /\ \A i \in AssignmentIds :
               /\ i = 2 => f[i].user_id = "u2"
               /\ i > 2 => f[i] = Assignment("u1", NULL, "pending")}

\* The second user's subject has one absent record, or there is no record.
TwoUserLedgers ==
    {{}, {[id |-> 1, subject_id |-> 2, class_date |-> todayDate, status |-> "absent"]}}

InitIsolation ==
    /\ IdleClient
    /\ IdlePages
    /\ subjects = SubjectIds
    /\ attendance_records \in TwoUserLedgers
    /\ markReq = [q \in Requests |-> IdleReq]
    /\ lastMark = "none"
    /\ summaries = NoSummaries
    /\ projector = IdleProjector
    /\ today = 2
    /\ assignments \in TwoUserAssignments
    /\ activities = <<>>
    /\ alerts = {}
    /\ refreshReq = [p \in Refreshers |-> IdleRefresh]
    /\ lastOp = [op |-> "none"]

\* Runs for different users interleave with each other and with the
\* activity requests; a user has one refresh in flight at a time.
NextIsolation ==
    \/ \E p \in Refreshers, u \in Users :
           /\ \A q \in Refreshers : refreshReq[q].user_id # u
           /\ RefreshRead(p, u)
    \/ \E p \in Refreshers : RefreshWrite(p)
    \/ \E u \in Users, d \in {3, 6} : createActivity(u, d)
    \/ \E u \in Users : refreshConflicts(u)

SpecIsolation == InitIsolation /\ [][NextIsolation]_vars

AlertsOfOthers(rows, u) == {a \in rows : a.user_id # u}

\* The rows an alert points to are its user's own.
RelatedRowsAreOwn(a) ==
    /\ a.related_assignment_id # NULL =>
           assignments[a.related_assignment_id[1]].user_id = a.user_id
    /\ a.related_activity_id # NULL =>
           activities[a.related_activity_id[1]].user_id = a.user_id
    /\ a.related_subject_id # NULL =>
           SubjectUser(a.related_subject_id[1]) = a.user_id

\* The step that ends a classifier run for a user.
ClassifierRunKeepsToItsUser ==
    \A p \in DOMAIN refreshReq :
        (refreshReq[p].pc = "write" /\ refreshReq'[p].pc = "idle") =>
            /\ AlertsOfOthers(alerts', refreshReq[p].user_id)
                   = AlertsOfOthers(alerts, refreshReq[p].user_id)
            /\ \A b \in alerts' \ alerts : RelatedRowsAreOwn(b)
            /\ activities' = activities
            /\ attendance_records' = attendance_records

\* The step of a conflict rescan for a user.
RescanKeepsToItsUser ==
    (lastOp'.op = "refresh_conflicts" /\ activities' # activities) =>
        /\ \A a \in DOMAIN activities :
               activities[a].user_id # lastOp'.user_id => activities'[a] = activities[a]
        /\ \A a \in DOMAIN activities' :
               (activities'[a].user_id = lastOp'.user_id
                    /\ activities'[a].conflict_detail # NULL) =>
                   assignments[activities'[a].conflict_detail[1]].user_id
                       = lastOp'.user_id
        /\ alerts' = alerts
        /\ attendance_records' = attendance_records

\* C12: a classifier run or a conflict rescan for one user leaves the
\* alerts, conflict flags and attendance records of every other user as
\* they were, also when runs for different users interleave, and what it
\* writes for its user points to that user's own rows only.
C12_NoCrossTalk == [][ClassifierRunKeepsToItsUser /\ RescanKeepsToItsUser]_vars

\* Both users have alerts and a flagged activity, written by interleaved
\* runs: a run for the second user ended while one for the first was in
\* flight.
C12_Witness ==
    /\ lastOp.op = "refresh" /\ lastOp.user_id = "u2" /\ lastOp.generated # {}
    /\ \E p \in DOMAIN refreshReq :
           refreshReq[p].pc = "write" /\ refreshReq[p].user_id = "u1"
    /\ \E a \in alerts : a.user_id = "u1"
    /\ \E x \in DOMAIN activities, y \in DOMAIN activities :
           /\ activities[x].user_id = "u1" /\ activities[x].has_conflict
           /\ activities[y].user_id = "u2" /\ activities[y].has_conflict

\* ---------------------------------------------------------------------
\* The projector's failure modes
\* ---------------------------------------------------------------------

C15_MalformedRejected ==
    (projector.present < 0 \/ projector.present > projector.total) =>
        /\ projector.plan.kind # "none" => projector.plan.kind = "validation_error"
        /\ projector.card = NULL

\* The current attendance present / total is at least target percent.
AlreadyOnTarget(target) == 100 * projector.present >= target * projector.total

\* C19: the classes-needed result is never negative, and for valid inputs
\* it is 0 exactly when present / total already meets the target; present
\* 9 of 10 with target 75 gives 0.  The same holds for the number the
\* subject card computes, whose target is 75.
C19_NeverNegative ==
    /\ projector.plan.kind = "ok" =>
           /\ projector.plan.x >= 0
           /\ projector.plan.x = 0 <=> AlreadyOnTarget(projector.target)
    /\ projector.card # NULL =>
           /\ projector.card[1] >= 0
           /\ ValidProjection => (projector.card[1] = 0 <=> AlreadyOnTarget(75))

\* Present 9 of 10 with target 75: the plan and the card both say 0.
C19_Witness ==
    /\ projector.present = 9
    /\ projector.total = 10
    /\ projector.target = 75
    /\ projector.plan = [kind |-> "ok", x |-> 0]
    /\ projector.card = Some(0)

\* ---------------------------------------------------------------------
\* A rule that fails
\* ---------------------------------------------------------------------

Rules == {"overload", "attendance_low", "deadline_soon", "activity_conflict"}

RuleIntents(r, u) ==
    CASE r = "overload" -> OverloadIntents(u)
      [] r = "attendance_low" -> AttendanceLowIntents(u)
      [] r = "deadline_soon" -> DeadlineSoonIntents(u)
      [] r = "activity_conflict" -> ConflictIntents(u)

PassIntentsAbortOnFailure(u, F) == IF F = {} THEN AlertIntents(u) ELSE {}

\* One pass in which the evaluation of the rules in F fails (a malformed
\* assignment deadline, say): each rule is evaluated on its own and a
\* failing rule contributes nothing.
PassIntents(u, F) == UNION {RuleIntents(r, u) : r \in Rules \ F}

\* POST /alerts/refresh, first half, the rules in F failing.
RefreshReadFailing(p, u, F) ==
    /\ refreshReq[p].pc = "idle"
    /\ refreshReq' = [refreshReq EXCEPT ![p] =
           [pc |-> "write", user_id |-> u,
            missing |-> MissingIntents(PassIntents(u, F), alerts), failed |-> F]]
    /\ UNCHANGED <<pageVars, clientVars, attendanceVars, today, assignments, activities, alerts, lastOp>>

\* The first user has 3 open assignments due within 7 days, one of them
\* today, an absent record, and an activity on the day of a deadline.
InitRuleFailure ==
    /\ IdleClient
    /\ IdlePages
    /\ subjects = SubjectIds
    /\ attendance_records \in SmallLedgers
    /\ markReq = [q \in Requests |-> IdleReq]
    /\ lastMark = "none"
    /\ summaries = NoSummaries
    /\ projector = IdleProjector
    /\ today = 0
    /\ assignments \in SampleAssignments
    /\ activities \in {<<>>, <<[Activity("u1", 7) EXCEPT !.has_conflict = TRUE]>>}
    /\ alerts = {}
    /\ refreshReq = [p \in {1} |-> IdleRefresh]
    /\ lastOp = [op |-> "none"]

NextRuleFailure ==
    \/ \E u \in Users, F \in SUBSET Rules : RefreshReadFailing(1, u, F)
    \/ RefreshWrite(1)

SpecRuleFailure == InitRuleFailure /\ [][NextRuleFailure]_vars

\* The alert conditions of user u that rule r finds, read off the tables.
ConditionsOf(r, u) ==
    CASE r = "overload" ->
             IF Cardinality(OpenDueInSevenDays(u)) >= 3 THEN {<<NULL, NULL, NULL>>} ELSE {}
      [] r = "attendance_low" ->
             {<<NULL, NULL, Some(sm.subject_id)>> :
                 sm \in {x \in attendance_summary(attendance_records) :
                            SubjectUser(x.subject_id) = u /\ x.below_threshold}}
      [] r = "deadline_soon" ->
             {<<Some(i), NULL, NULL>> :
                 i \in {j \in OpenDueInSevenDays(u) :
                           assignments[j].deadline[1] <= today + 1}}
      [] r = "activity_conflict" ->
             {<<Some(c[2]), Some(c[1]), NULL>> :
                 c \in {x \in (DOMAIN activities) \X (DOMAIN assignments) :
                           /\ activities[x[1]].user_id = u
                           /\ assignments[x[2]].user_id = u
                           /\ assignments[x[2]].deadline # NULL
                           /\ assignments[x[2]].deadline[1] \in
                                  {activities[x[1]].activity_date - 1,
                                   activities[x[1]].activity_date,
                                   activities[x[1]].activity_date + 1}}}

HasUnreadAlert(rows, u, r, k) ==
    \E a \in rows :
        /\ a.user_id = u /\ a.alert_type = r /\ ~a.is_read
        /\ a.related_assignment_id = k[1]
        /\ a.related_activity_id = k[2]
        /\ a.related_subject_id = k[3]

\* The step that ends a pass: whatever rules failed in it, every condition
\* found by a rule that did not fail has an unread alert afterwards.
OtherRulesStillProduce ==
    (refreshReq[1].pc = "write" /\ refreshReq'[1].pc = "idle") =>
        \A r \in Rules \ refreshReq[1].failed :
            \A k \in ConditionsOf(r, refreshReq[1].user_id) :
                HasUnreadAlert(alerts', refreshReq[1].user_id, r, k)

NoDeadlines == [i \in AssignmentIds |-> Assignment("u1", NULL, "pending")]

\* One pass per user over a ledger that marks have filled.
InitAttendanceLow ==
    /\ IdleClient
    /\ IdlePages
    /\ subjects = SubjectIds
    /\ \E f \in [LedgerCells(SubjectIds) -> AttendanceStatus \cup {"none"}] :
           attendance_records = LedgerOf(f)
    /\ markReq = [q \in Requests |-> IdleReq]
    /\ lastMark = "none"
    /\ summaries = NoSummaries
    /\ projector = IdleProjector
    /\ today = 0
    /\ assignments = NoDeadlines
    /\ activities = <<>>
    /\ alerts = {}
    /\ refreshReq = [p \in {1} |-> IdleRefresh]
    /\ lastOp = [op |-> "none"]

NextAttendanceLow ==
    \/ \E u \in Users : RefreshRead(1, u)
    \/ RefreshWrite(1)

SpecAttendanceLow == InitAttendanceLow /\ [][NextAttendanceLow]_vars

\* Subject s has records and fewer than 75 in 100 of them are present or late.
BelowSeventyFive(s) ==
    /\ RecordsOf(s) # {}
    /\ 100 * Cardinality(PresentOrLate(s)) < 75 * Cardinality(RecordsOf(s))

AttendanceLowAlerts(s) ==
    {a \in alerts : a.alert_type = "attendance_low" /\ a.related_subject_id = Some(s)}

\* C17: after a classifier pass for a user, each of the user's subjects that
\* is below threshold has one attendance_low alert, of severity critical and
\* the user's own, and a subject at or above 75% or without records has
\* none.
C17_AttendanceLow ==
    lastOp.op = "refresh" =>
        \A s \in subjects :
            SubjectUser(s) = lastOp.user_id =>
                /\ BelowSeventyFive(s) =>
                       /\ Cardinality(AttendanceLowAlerts(s)) = 1
                       /\ \A a \in AttendanceLowAlerts(s) :
                              /\ a.severity = "critical"
                              /\ a.user_id = lastOp.user_id
                              /\ ~a.is_read
                /\ ~BelowSeventyFive(s) => AttendanceLowAlerts(s) = {}

\* A pass has raised the alert for a subject with 2 of 4 classes attended.
C17_Witness ==
    /\ lastOp.op = "refresh"
    /\ Cardinality(RecordsOf(1)) = 4
    /\ Cardinality(PresentOrLate(1)) = 2
    /\ \E a \in lastOp.generated :
           /\ a.alert_type = "attendance_low"
           /\ a.severity = "critical"
           /\ a.related_subject_id = Some(1)

DeadlineSoonAlerts(i) ==
    {a \in alerts : a.alert_type = "deadline_soon" /\ a.related_assignment_id = Some(i)}

\* Assignment i is not completed and due today or tomorrow.
DueInADay(i) ==
    /\ assignments[i].status # "completed"
    /\ assignments[i].deadline \in {Some(today), Some(today + 1)}

RequestKinds == {"login", "data"}

\* api.interceptors.request: attach the stored token, if there is one.
requestInterceptor(kind) ==
    [kind |-> kind, Authorization |-> localStorage.sais_token]

\* A call through the axios instance leaves the browser.
request(k, kind) ==
    /\ inflight[k] = IdleRequest
    /\ inflight' = [inflight EXCEPT ![k] = requestInterceptor(kind)]
    /\ UNCHANGED <<localStorage, location, issued, lastStatus, rejected,
                   attendanceVars, alertVars, pageVars>>

\* A 2xx response; the login page stores the access token of a login
\* response (setToken) and navigates to "/".
responseOk(k) ==
    /\ inflight[k] # IdleRequest
    /\ inflight' = [inflight EXCEPT ![k] = IdleRequest]
    /\ lastStatus' = 200
    /\ IF inflight[k].kind = "login"
       THEN /\ issued < MaxTokens
            /\ issued' = issued + 1
            /\ localStorage' = [localStorage EXCEPT !.sais_token = Some(issued + 1)]
            /\ location' = "/"
       ELSE UNCHANGED <<issued, localStorage, location>>
    /\ UNCHANGED <<rejected, attendanceVars, alertVars, pageVars>>

onRejectedKeepsToken(status) ==
    /\ localStorage' = localStorage
    /\ location' = IF status = 401 THEN "/login" ELSE location

\* api.interceptors.response, the error handler: on 401 remove the token
\* and go to /login.
onRejected(status) ==
    IF status = 401
    THEN /\ localStorage' = [localStorage EXCEPT !.sais_token = NULL]
         /\ location' = "/login"
    ELSE UNCHANGED <<localStorage, location>>

\* An error response with the given status.
responseError(k, status) ==
    /\ inflight[k] # IdleRequest
    /\ inflight' = [inflight EXCEPT ![k] = IdleRequest]
    /\ lastStatus' = status
    /\ onRejected(status)
    /\ rejected' = IF status = 401 /\ inflight[k].Authorization # NULL
                   THEN rejected \cup {inflight[k].Authorization[1]}
                   ELSE rejected
    /\ UNCHANGED <<issued, attendanceVars, alertVars, pageVars>>

\* logout of the auth context
logout ==
    /\ localStorage.sais_token # NULL
    /\ localStorage' = [localStorage EXCEPT !.sais_token = NULL]
    /\ location' = "/login"
    /\ UNCHANGED <<inflight, issued, lastStatus, rejected, attendanceVars, alertVars, pageVars>>

InitClient ==
    /\ IdleClient
    /\ IdlePages
    /\ subjects = {}
    /\ attendance_records = {}
    /\ markReq = [q \in Requests |-> IdleReq]
    /\ lastMark = "none"
    /\ summaries = NoSummaries
    /\ projector = IdleProjector
    /\ NoAlertData

NextClient ==
    \/ \E k \in RequestSlots, kind \in RequestKinds : request(k, kind)
    \/ \E k \in RequestSlots : responseOk(k)
    \/ \E k \in RequestSlots, status \in {401, 500} : responseError(k, status)
    \/ logout

SpecClient == InitClient /\ [][NextClient]_vars

\* Right after a 401 the token is gone and the browser is on /login.
LoggedOutAfter401 ==
    lastStatus = 401 => (localStorage.sais_token = NULL /\ location = "/login")

\* A request that leaves the browser does not carry a token that a 401 has
\* answered before.
NoRejectedTokenSent ==
    \A k \in RequestSlots :
        (inflight[k] = IdleRequest /\ inflight'[k] # IdleRequest) =>
            \/ inflight'[k].Authorization = NULL
            \/ inflight'[k].Authorization[1] \notin rejected

\* C20: after a response with status 401 the stored sais_token is removed
\* and the browser is on /login, and no request sent later carries the
\* rejected token in its Authorization header.
C20_TokenDroppedOn401 == []LoggedOutAfter401 /\ [][NoRejectedTokenSent]_vars

\* After a 401 for the first token the user has logged in again and a
\* request carrying the new token is in flight.
C20_Witness ==
    /\ 1 \in rejected
    /\ localStorage.sais_token = Some(2)
    /\ \E k \in RequestSlots : inflight[k] = [kind |-> "data", Authorization |-> Some(2)]

\* ---------------------------------------------------------------------
\* localAuth: users and sessions in localStorage
\* ---------------------------------------------------------------------

Emails == {"demo@sais.edu", "a@sais.edu", "b@sais.edu"}

Usernames == {"demo", "ann", "bob"}

Passwords == {"password123", "pw"}

getUsers == localStorage.sais_users

\* const { password: _, ...safe } = user
Safe(user) ==
    [id |-> user.id, email |-> user.email, username |-> user.username,
     full_name |-> user.full_name]

Answer(op, status, data) == [op |-> op, status |-> status, data |-> data]

\* What no part of localAuth touches.
outsideLocalAuth ==
    <<location, inflight, lastStatus, rejected, attendanceVars, alertVars, except_authLog>>

emailTaken(users, email) == \E i \in DOMAIN users : users[i].email = email

usernameTakenNever(users, username) == FALSE

usernameTaken(users, username) == \E i \in DOMAIN users : users[i].username = username

\* localAuth.register
register(email, username, full_name, password) ==
    LET users == getUsers
        newUser == [id |-> Len(users) + 1, email |-> email, username |-> username,
                    full_name |-> IF full_name = "" THEN username ELSE full_name,
                    password |-> password]
    IN  /\ IF emailTaken(users, email) \/ usernameTaken(users, username)
           THEN /\ authLog' = [authLog EXCEPT !.last = Answer("register", 400, NULL)]
                /\ UNCHANGED localStorage
           ELSE /\ localStorage' = [localStorage EXCEPT !.sais_users = Append(users, newUser)]
                /\ authLog' = [authLog EXCEPT
                       !.last = Answer("register", 200, Some(Safe(newUser)))]
        /\ UNCHANGED <<issued, outsideLocalAuth>>

\* localAuth.login; generateToken gives a token never seen before.
login(email, password) ==
    LET users == getUsers
        found == {i \in DOMAIN users :
                     users[i].email = email /\ users[i].password = password}
    IN  IF found = {}
        THEN /\ authLog' = [authLog EXCEPT !.last = Answer("login", 401, NULL)]
             /\ UNCHANGED <<localStorage, issued, outsideLocalAuth>>
        ELSE LET user == users[CHOOSE i \in found : \A j \in found : i <= j]
                 token == issued + 1
             IN  /\ issued < MaxTokens
                 /\ issued' = token
                 /\ localStorage' = [localStorage EXCEPT
                        !.sais_token = Some(token),
                        !.sais_session = Some([token |-> token, userId |-> user.id])]
                 /\ authLog' = [login |-> Some([token |-> token, user |-> Safe(user)]),
                                loggedOut |-> FALSE,
                                last |-> Answer("login", 200, Some(Safe(user)))]
                 /\ UNCHANGED outsideLocalAuth

meIgnoringToken(store) ==
    IF store.sais_token = NULL \/ store.sais_session = NULL
    THEN Answer("me", 401, NULL)
    ELSE LET found == {i \in DOMAIN store.sais_users :
                          store.sais_users[i].id = store.sais_session[1].userId}
         IN  IF found = {}
             THEN Answer("me", 401, NULL)
             ELSE Answer("me", 200,
                      Some(Safe(store.sais_users[CHOOSE i \in found : \A j \in found : i <= j])))

\* localAuth.me, as a function of the store
me(store) ==
    IF store.sais_token = NULL
    THEN Answer("me", 401, NULL)
    ELSE IF store.sais_session = NULL
             \/ store.sais_session[1].token # store.sais_token[1]
    THEN Answer("me", 401, NULL)
    ELSE LET found == {i \in DOMAIN store.sais_users :
                          store.sais_users[i].id = store.sais_session[1].userId}
         IN  IF found = {}
             THEN Answer("me", 401, NULL)
             ELSE Answer("me", 200,
                      Some(Safe(store.sais_users[CHOOSE i \in found : \A j \in found : i <= j])))

\* A call of localAuth.me
callMe ==
    /\ authLog' = [authLog EXCEPT !.last = me(localStorage)]
    /\ UNCHANGED <<localStorage, issued, outsideLocalAuth>>

\* localAuth.logout
localLogout ==
    /\ localStorage' = [localStorage EXCEPT !.sais_token = NULL, !.sais_session = NULL]
    /\ authLog' = [authLog EXCEPT !.loggedOut = TRUE,
                                  !.last = Answer("logout", 200, NULL)]
    /\ UNCHANGED <<issued, outsideLocalAuth>>

\* localAuth next to the axios client: a login against the backend stores
\* the backend's token, a 401 removes the stored token.
NextLocalAuth ==
    \/ \E e \in Emails, u \in Usernames : register(e, u, "", "pw")
    \/ \E e \in Emails, p \in Passwords : login(e, p)
    \/ callMe
    \/ localLogout
    \/ request(1, "login")
    \/ responseOk(1)
    \/ responseError(1, 401)

SpecLocalAuth == InitClient /\ [][NextLocalAuth]_vars

\* C21: localAuth.me() answers with a user only when the stored token is
\* the one recorded by the last successful localAuth.login(), and then with
\* exactly the user who logged in, without the password; after
\* localAuth.logout() it answers 401 until the next successful login.
C21_MeIsTheLoggedInUser ==
    LET r == me(localStorage)
    IN  /\ r.status = 200 =>
               /\ authLog.login # NULL
               /\ localStorage.sais_token = Some(authLog.login[1].token)
               /\ r.data = Some(authLog.login[1].user)
               /\ "password" \notin DOMAIN r.data[1]
        /\ authLog.loggedOut => r.status = 401
        /\ authLog.last.op = "me" /\ authLog.last.status = 200
               => authLog.login # NULL /\ authLog.last.data = Some(authLog.login[1].user)

\* me() has answered with a user registered after the seeded one, who
\* logged in after an earlier logout.
C21_Witness ==
    /\ authLog.last.op = "me"
    /\ authLog.last.status = 200
    /\ authLog.last.data # Some(Safe(DummyUser))
    /\ issued = 2

\* C23: after any sequence of localAuth.register() calls no two stored
\* users share an e-mail address, a username or an id.
C23_UsersAreDistinct ==
    \A i, j \in DOMAIN getUsers :
        i # j => /\ getUsers[i].email # getUsers[j].email
                 /\ getUsers[i].username # getUsers[j].username
                 /\ getUsers[i].id # getUsers[j].id

\* C23, second half: a registration rejected as a duplicate (400) leaves
\* the stored user list as it was.
C23_RejectedRegisterKeepsUsers ==
    [][authLog'.last.op = "register" /\ authLog'.last.status = 400
          => localStorage'.sais_users = localStorage.sais_users]_vars

\* Three users are stored and a further registration was just rejected.
C23_Witness ==
    /\ Len(getUsers) = 3
    /\ authLog.last.op = "register"
    /\ authLog.last.status = 400

\* C23: both halves together.
C23_RegisterKeepsUsersDistinct ==
    []C23_UsersAreDistinct /\ C23_RejectedRegisterKeepsUsers

\* ---------------------------------------------------------------------
\* The new-assignment form
\* ---------------------------------------------------------------------

FormKeys == {"title", "subject", "task_type", "description", "deadline", "priority"}

\* The fields the form lets the user leave empty.
OptionalKeys == {"subject", "description", "deadline"}

\* What the inputs of the form can hold.
FormChoices ==
    [title |-> {"", "Lab report"},
     subject |-> {"", " ", "Physics"},
     task_type |-> {"assignment", "exam"},
     description |-> {"", "notes"},
     deadline |-> {"", "2026-03-01"},
     priority |-> {"medium", "high"}]

\* useState({ title: '', subject: '', task_type: 'assignment', ... })
EmptyForm ==
    [title |-> "", subject |-> "", task_type |-> "assignment",
     description |-> "", deadline |-> "", priority |-> "medium"]

outsideModal ==
    <<clientVars, attendanceVars, alertVars, except_modal>>

cleanFormAsTyped(form) == [key \in FormKeys |-> Some(form[key])]

\* Object.fromEntries(Object.entries(form).map(([key, val]) => [key, val === '' ? null : val]))
cleanForm(form) == [key \in FormKeys |-> IF form[key] = "" THEN NULL ELSE Some(form[key])]

\* setShowModal(true): the modal is mounted with an empty form.
openModal ==
    /\ ~modal.open
    /\ modal' = [modal EXCEPT !.open = TRUE, !.form = EmptyForm, !.saving = FALSE]
    /\ UNCHANGED outsideModal

\* onChange of an input
setForm(key, val) ==
    /\ modal.open
    /\ modal' = [modal EXCEPT !.form[key] = val]
    /\ UNCHANGED outsideModal

\* AssignmentModal.submit up to the request: the title is required and the
\* button is disabled while saving.
submit ==
    /\ modal.open
    /\ ~modal.saving
    /\ modal.form.title # ""
    /\ modal' = [modal EXCEPT
           !.saving = TRUE,
           !.posted = Some([form |-> modal.form, data |-> cleanForm(modal.form)])]
    /\ UNCHANGED outsideModal

\* The request succeeded: onClose(), then finally.
submitDone ==
    /\ modal.saving
    /\ modal' = [modal EXCEPT !.open = FALSE, !.saving = FALSE]
    /\ UNCHANGED outsideModal

\* The request failed: a toast, then finally.
submitFailed ==
    /\ modal.saving
    /\ modal' = [modal EXCEPT !.saving = FALSE]
    /\ UNCHANGED outsideModal

NextModal ==
    \/ openModal
    \/ \E key \in FormKeys : \E val \in FormChoices[key] : setForm(key, val)
    \/ submit
    \/ submitDone
    \/ submitFailed

SpecModal == InitClient /\ [][NextModal]_vars

\* C22: every optional field left empty in the new-assignment form is sent
\* to the API as null, never as an empty string.
C22_EmptyFieldsSentAsNull ==
    modal.posted # NULL =>
        \A key \in OptionalKeys :
            /\ modal.posted[1].form[key] = "" => modal.posted[1].data[key] = NULL
            /\ modal.posted[1].data[key] # Some("")

\* A form was posted with the subject filled in and the deadline left empty.
C22_Witness ==
    /\ modal.posted # NULL
    /\ modal.posted[1].form.deadline = ""
    /\ modal.posted[1].form.subject = "Physics"
    /\ modal.posted[1].data.deadline = NULL

\* ---------------------------------------------------------------------
\* AuthProvider, LoginPage and ProtectedRoute
\* ---------------------------------------------------------------------

\* The two AuthProviders of the repository: the one that asks the backend
\* only, and the one that falls back to localAuth.
Providers == {"backend", "fallback"}

outsideAuth ==
    <<inflight, lastStatus, rejected, attendanceVars, alertVars, except_auth>>

\* fetchUser up to its await, for the provider of a; the fallback provider
\* does not set loading before it asks.
fetchUser(a, store) ==
    IF store.sais_token = NULL
    THEN IF a.provider = "backend"
         THEN [a EXCEPT !.loading = FALSE]
         ELSE [a EXCEPT !.user = NULL, !.loading = FALSE]
    ELSE IF a.provider = "backend"
         THEN [a EXCEPT !.loading = TRUE, !.pending = @ + 1]
         ELSE [a EXCEPT !.pending = @ + 1]

\* What ProtectedRoute renders.
ProtectedRoute ==
    IF auth.loading THEN "spinner"
    ELSE IF auth.user # NULL THEN "children"
    ELSE "Navigate to /login"

\* The application is loaded: useState(null), useState(true), and the
\* effect that calls fetchUser.
mountAuthProvider(p) ==
    /\ auth.provider = "none"
    /\ auth' = fetchUser([auth EXCEPT !.provider = p], localStorage)
    /\ UNCHANGED <<localStorage, location, issued, outsideAuth>>

\* LoginPage.handleSubmit up to the answer of login()
handleSubmit ==
    /\ auth.provider # "none"
    /\ location = "/login"
    /\ ~auth.submitting
    /\ auth' = [auth EXCEPT !.submitting = TRUE, !.error = ""]
    /\ UNCHANGED <<localStorage, location, issued, outsideAuth>>

\* login() succeeded: setToken(data.access_token), which stores the token
\* and calls fetchUser, then navigate('/').
handleSubmitOk ==
    /\ auth.submitting
    /\ issued < MaxTokens
    /\ issued' = issued + 1
    /\ localStorage' = [localStorage EXCEPT !.sais_token = Some(issued + 1)]
    /\ auth' = fetchUser([auth EXCEPT !.submitting = FALSE], localStorage')
    /\ location' = "/"
    /\ UNCHANGED outsideAuth

\* login() failed: the page shows the error.
handleSubmitFailed ==
    /\ auth.submitting
    /\ auth' = [auth EXCEPT !.submitting = FALSE, !.error = "Login failed. Please try again."]
    /\ UNCHANGED <<localStorage, location, issued, outsideAuth>>

\* getMe() of a fetchUser answered: setUser(data), finally setLoading(false).
getMeOk ==
    /\ auth.pending > 0
    /\ auth' = [auth EXCEPT !.user = Some(Safe(DummyUser)), !.loading = FALSE,
                            !.pending = @ - 1]
    /\ UNCHANGED <<localStorage, location, issued, outsideAuth>>

\* getMe() of a fetchUser failed: the backend provider drops the token; the
\* fallback provider asks localAuth.me() first.
getMeFailed ==
    /\ auth.pending > 0
    /\ LET local == me(localStorage)
       IN  IF auth.provider = "fallback" /\ local.status = 200
           THEN /\ auth' = [auth EXCEPT !.user = local.data, !.loading = FALSE,
                                        !.pending = @ - 1]
                /\ UNCHANGED localStorage
           ELSE /\ auth' = [auth EXCEPT !.user = NULL, !.loading = FALSE,
                                        !.pending = @ - 1]
                /\ localStorage' = [localStorage EXCEPT !.sais_token = NULL]
    /\ UNCHANGED <<location, issued, outsideAuth>>

\* The router renders ProtectedRoute on a protected path and follows its
\* <Navigate to="/login" replace />.
renderProtectedRoute ==
    /\ location = "/"
    /\ ProtectedRoute = "Navigate to /login"
    /\ location' = "/login"
    /\ auth' = [auth EXCEPT !.redirected = TRUE]
    /\ UNCHANGED <<localStorage, issued, outsideAuth>>

\* logout of the auth context: the backend provider reloads the application
\* at /login, the fallback provider calls localAuth.logout() and navigates.
authLogout ==
    /\ auth.provider # "none"
    /\ location = "/"
    /\ ProtectedRoute = "children"
    /\ location' = "/login"
    /\ IF auth.provider = "backend"
       THEN /\ localStorage' = [localStorage EXCEPT !.sais_token = NULL]
            /\ auth' = [auth EXCEPT !.user = NULL, !.loading = FALSE, !.pending = 0,
                                    !.submitting = FALSE, !.error = ""]
       ELSE /\ localStorage' = [localStorage EXCEPT !.sais_token = NULL,
                                                    !.sais_session = NULL]
            /\ auth' = [auth EXCEPT !.user = NULL]
    /\ UNCHANGED <<issued, outsideAuth>>

\* The user reloads the application at a path: the provider is mounted
\* anew and its effect calls fetchUser with the token that is stored.
reloadPage(path) ==
    /\ auth.provider # "none"
    /\ location' = path
    /\ auth' = fetchUser([auth EXCEPT !.user = NULL, !.loading = TRUE, !.pending = 0,
                                      !.submitting = FALSE, !.error = ""],
                         localStorage)
    /\ UNCHANGED <<localStorage, issued, outsideAuth>>

NextLogin ==
    \/ \E p \in Providers : mountAuthProvider(p)
    \/ handleSubmit
    \/ handleSubmitOk
    \/ handleSubmitFailed
    \/ getMeOk
    \/ getMeFailed
    \/ renderProtectedRoute
    \/ authLogout
    \/ \E path \in {"/", "/login"} : reloadPage(path)

SpecLogin == InitClient /\ [][NextLogin]_vars

\* C24: between setToken() and the completion of the user fetch it starts,
\* ProtectedRoute shows the loading state and never redirects to /login: on
\* the protected page it is never evaluated with loading = false and
\* user = null while a fetch is pending.
C24_SpinnerWhileFetching ==
    location = "/" /\ auth.pending > 0 => ProtectedRoute # "Navigate to /login"

\* With the fallback provider the login succeeded, the first fetch is still
\* pending, and ProtectedRoute has sent the user back to /login.
C24_RedirectedWhileFetching ==
    /\ auth.provider = "fallback"
    /\ auth.redirected
    /\ auth.pending = 1
    /\ issued = 1
    /\ location = "/login"
    /\ localStorage.sais_token = Some(1)

\* ---------------------------------------------------------------------
\* UploadPage: the document list and its polling
\* ---------------------------------------------------------------------

DocIds == {1, 2}

Doc(id, status) == [id |-> id, extraction_status |-> status]

DocIdsOf(docs) == {d.id : d \in docs}

\* d.extraction_status === 'processing' || d.extraction_status === 'pending'
isProcessing(d) == d.extraction_status \in {"processing", "pending"}

needsPoll == \E d \in uploadPage.docs : isProcessing(d)

outsideUpload ==
    <<clientVars, attendanceVars, alertVars, except_documents_uploadPage>>

\* What happened to the list while a poll round was in flight.
Noted(field, id) ==
    IF uploadPage.round = NULL
    THEN uploadPage.round
    ELSE Some([uploadPage.round[1] EXCEPT ![field] = @ \cup {id}])

\* The backend works on a document.
extract(id) ==
    /\ \/ documents[id] = "pending" /\ documents' = [documents EXCEPT ![id] = "processing"]
       \/ documents[id] = "processing" /\ documents' = [documents EXCEPT ![id] = "done"]
       \/ documents[id] = "processing" /\ documents' = [documents EXCEPT ![id] = "failed"]
    /\ UNCHANGED <<uploadPage, outsideUpload>>

\* uploadFiles with one file, up to the answer of documentsAPI.upload.
uploadFiles(id) ==
    /\ uploadPage.results = NULL
    /\ documents[id] = "none"
    /\ documents' = [documents EXCEPT ![id] = "pending"]
    /\ uploadPage' = [uploadPage EXCEPT !.results = Some({Doc(id, "pending")})]
    /\ UNCHANGED outsideUpload

\* uploadFiles with one file whose upload fails: results stays empty.
uploadFilesFailed ==
    /\ uploadPage.results = NULL
    /\ uploadPage' = [uploadPage EXCEPT !.results = Some({})]
    /\ UNCHANGED <<documents, outsideUpload>>

\* uploadFiles after its loop: setDocs(prev => [...new results, ...prev]).
uploadFilesDone ==
    /\ uploadPage.results # NULL
    /\ LET new == {d \in uploadPage.results[1] : d.id \notin DocIdsOf(uploadPage.docs)}
       IN  uploadPage' = [uploadPage EXCEPT
               !.docs = new \cup @,
               !.results = NULL,
               !.round = IF @ = NULL THEN @
                         ELSE Some([@[1] EXCEPT !.added = @ \cup DocIdsOf(new)])]
    /\ UNCHANGED <<documents, outsideUpload>>

\* handleReprocess up to the answer of documentsAPI.reprocess.
handleReprocess(id) ==
    /\ Doc(id, "failed") \in uploadPage.docs
    /\ id \notin uploadPage.reprocessing
    /\ uploadPage' = [uploadPage EXCEPT !.reprocessing = @ \cup {id}]
    /\ documents' = [documents EXCEPT ![id] = "pending"]
    /\ UNCHANGED outsideUpload

\* handleReprocess after the answer: the document is shown as pending.
handleReprocessDone(id) ==
    /\ id \in uploadPage.reprocessing
    /\ uploadPage' = [uploadPage EXCEPT
           !.reprocessing = @ \ {id},
           !.docs = {IF d.id = id THEN Doc(id, "pending") ELSE d : d \in @},
           !.round = IF id \in DocIdsOf(uploadPage.docs) THEN Noted("reset", id) ELSE @]
    /\ UNCHANGED <<documents, outsideUpload>>

\* handleRemove: the button is on the card of a done document.
handleRemove(id) ==
    /\ Doc(id, "done") \in uploadPage.docs
    /\ uploadPage' = [uploadPage EXCEPT
           !.docs = {d \in @ : d.id # id},
           !.round = Noted("removed", id)]
    /\ UNCHANGED <<documents, outsideUpload>>

\* The interval fires: the callback of the effect works on the docs of the
\* render that set it up.
pollStart ==
    /\ needsPoll
    /\ uploadPage.round = NULL
    /\ uploadPage' = [uploadPage EXCEPT
           !.round = Some([docs |-> uploadPage.docs, updated |-> {},
                           added |-> {}, removed |-> {}, reset |-> {}])]
    /\ UNCHANGED <<documents, outsideUpload>>

\* client.get(`/documents/${d.id}`) of the round answers, or fails and the
\* round keeps d.
pollGet(d, ok) ==
    /\ uploadPage.round # NULL
    /\ d \in uploadPage.round[1].docs
    /\ isProcessing(d)
    /\ d.id \notin DocIdsOf(uploadPage.round[1].updated)
    /\ uploadPage' = [uploadPage EXCEPT
           !.round = Some([@[1] EXCEPT
               !.updated = @ \cup {IF ok THEN Doc(d.id, documents[d.id]) ELSE d}])]
    /\ UNCHANGED <<documents, outsideUpload>>

\* What the round writes: its own docs, the polled ones replaced.
roundResult(round) ==
    {d \in round.docs : ~isProcessing(d)} \cup round.updated

\* Promise.all has every answer: setDocs(updated).
pollDone ==
    /\ uploadPage.round # NULL
    /\ \A d \in uploadPage.round[1].docs :
           isProcessing(d) => d.id \in DocIdsOf(uploadPage.round[1].updated)
    /\ uploadPage' = [uploadPage EXCEPT
           !.docs = roundResult(uploadPage.round[1]),
           !.round = NULL]
    /\ UNCHANGED <<documents, outsideUpload>>

NextUpload ==
    \/ \E id \in DocIds : extract(id)
    \/ \E id \in DocIds : uploadFiles(id)
    \/ uploadFilesFailed
    \/ uploadFilesDone
    \/ \E id \in DocIds : handleReprocess(id)
    \/ \E id \in DocIds : handleReprocessDone(id)
    \/ \E id \in DocIds : handleRemove(id)
    \/ pollStart
    \/ \E id \in DocIds, status \in {"pending", "processing"}, ok \in BOOLEAN :
           pollGet(Doc(id, status), ok)
    \/ pollDone

SpecUpload == InitClient /\ [][NextUpload]_vars

\* C25: a polling round never undoes a list change made while it was in
\* flight: a document added by a finished upload is still listed, a removed
\* document is still gone, and a reprocessed document is still pending after
\* the round writes its result.
C25_PollKeepsConcurrentChanges ==
    [][uploadPage.round # NULL /\ uploadPage'.round = NULL =>
          LET round == uploadPage.round[1]
          IN  /\ round.added \subseteq DocIdsOf(uploadPage'.docs)
              /\ round.removed \cap DocIdsOf(uploadPage'.docs) = {}
              /\ \A id \in round.reset : Doc(id, "pending") \in uploadPage'.docs]_vars

\* ---------------------------------------------------------------------
\* ChatBotPage: conversations and the messages shown
\* ---------------------------------------------------------------------

outsideChat ==
    <<clientVars, attendanceVars, alertVars, except_chatDb_chat>>

\* The conversations the backend has.
Existing == (1..chatDb.created) \ chatDb.deleted

\* A message, with the conversation it was sent to.
Message(conv, role, id) == [conv |-> conv, role |-> role, id |-> id]

\* The stored messages of a conversation: one user message and one reply
\* per exchange.
MessagesOf(conv) ==
    [i \in 1..(2 * chatDb.exchanges[conv]) |->
        Message(conv, IF i % 2 = 1 THEN "user" ELSE "assistant", "stored")]

Sent == LET RECURSIVE sum(_)
            sum(n) == IF n = 0 THEN 0 ELSE chatDb.exchanges[n] + sum(n - 1)
        IN  sum(chatDb.created)

filterTemp(messages) == SelectSeq(messages, LAMBDA m : m.id # "temp-user")

\* createConversation on the backend
createConversation ==
    [chatDb EXCEPT !.created = @ + 1, !.exchanges = Append(@, 0)]

\* selectConversation up to the answer of getConversation
selectConversation(id) ==
    /\ id \in chat.conversations
    /\ id \notin chat.selecting
    /\ chat' = [chat EXCEPT !.selecting = @ \cup {id}]
    /\ UNCHANGED <<chatDb, outsideChat>>

\* getConversation answered, or failed for a deleted conversation.
selectConversationDone(id) ==
    /\ id \in chat.selecting
    /\ IF id \in Existing
       THEN chat' = [chat EXCEPT !.selecting = @ \ {id}, !.activeConvId = id,
                                 !.messages = MessagesOf(id)]
       ELSE chat' = [chat EXCEPT !.selecting = @ \ {id}]
    /\ UNCHANGED <<chatDb, outsideChat>>

\* handleNew up to the answer of createConversation
handleNew ==
    /\ chat.creating = 0
    /\ chatDb.created < MaxConversations
    /\ chatDb' = createConversation
    /\ chat' = [chat EXCEPT !.creating = chatDb.created + 1]
    /\ UNCHANGED outsideChat

\* handleNew after loadConversations: the new conversation is active.
handleNewDone ==
    /\ chat.creating # 0
    /\ chat' = [chat EXCEPT !.creating = 0, !.conversations = Existing,
                            !.activeConvId = chat.creating, !.messages = <<>>]
    /\ UNCHANGED <<chatDb, outsideChat>>

\* handleDelete up to the answer of deleteConversation; the callback
\* compares with the activeConvId of the render it was made in.
handleDelete(id) ==
    /\ id \in chat.conversations
    /\ \A r \in chat.deleting : r.id # id
    /\ chat' = [chat EXCEPT !.deleting = @ \cup {[id |-> id, activeConvId |-> chat.activeConvId]}]
    /\ chatDb' = [chatDb EXCEPT !.deleted = @ \cup {id}]
    /\ UNCHANGED outsideChat

\* handleDelete after the answer and loadConversations
handleDeleteDone(r) ==
    /\ r \in chat.deleting
    /\ chat' = [chat EXCEPT
           !.deleting = @ \ {r},
           !.conversations = Existing,
           !.activeConvId = IF r.activeConvId = r.id THEN 0 ELSE @,
           !.messages = IF r.activeConvId = r.id THEN <<>> ELSE @]
    /\ UNCHANGED <<chatDb, outsideChat>>

\* The optimistic part of handleSend: the temporary user message.
optimistic(c, convId) ==
    [c EXCEPT !.messages = Append(@, Message(convId, "user", "temp-user")),
              !.sending = TRUE,
              !.send = Some([convId |-> convId, stage |-> "sending"])]

\* handleSend up to its first await: with no active conversation it creates
\* one, else it goes on to sendMessage.
handleSend ==
    /\ ~chat.sending
    /\ chat.send = NULL
    /\ IF chat.activeConvId = 0
       THEN /\ chatDb.created < MaxConversations
            /\ chatDb' = createConversation
            /\ chat' = [chat EXCEPT
                   !.send = Some([convId |-> chatDb.created + 1, stage |-> "creating"])]
       ELSE /\ chat' = optimistic(chat, chat.activeConvId)
            /\ UNCHANGED chatDb
    /\ UNCHANGED outsideChat

\* handleSend: createConversation answered, setActiveConvId(conv.id).
handleSendCreated ==
    /\ chat.send # NULL
    /\ chat.send[1].stage = "creating"
    /\ chat' = [chat EXCEPT !.activeConvId = chat.send[1].convId,
                            !.send = Some([@[1] EXCEPT !.stage = "loading"])]
    /\ UNCHANGED <<chatDb, outsideChat>>

\* handleSend: loadConversations answered; the optimistic part follows.
handleSendLoaded ==
    /\ chat.send # NULL
    /\ chat.send[1].stage = "loading"
    /\ chat' = optimistic([chat EXCEPT !.conversations = Existing], chat.send[1].convId)
    /\ UNCHANGED <<chatDb, outsideChat>>

\* setMessages((prev) => [...withoutTemp, { id: 'real-user-' ... }, aiMsg])
appendExchange(messages, convId) ==
    filterTemp(messages) \o
        <<Message(convId, "user", "real-user"), Message(convId, "assistant", "stored")>>

\* handleSend: sendMessage answered.
handleSendOk ==
    /\ chat.send # NULL
    /\ chat.send[1].stage = "sending"
    /\ chat.send[1].convId \in Existing
    /\ Sent < MaxSends
    /\ chatDb' = [chatDb EXCEPT !.exchanges[chat.send[1].convId] = @ + 1]
    /\ chat' = [chat EXCEPT
           !.messages = appendExchange(@, chat.send[1].convId),
           !.send = Some([@[1] EXCEPT !.stage = "refreshing"])]
    /\ UNCHANGED outsideChat

\* handleSend: sendMessage failed.
handleSendFailed ==
    /\ chat.send # NULL
    /\ chat.send[1].stage = "sending"
    /\ chat' = [chat EXCEPT !.messages = filterTemp(@), !.sending = FALSE, !.send = NULL]
    /\ UNCHANGED <<chatDb, outsideChat>>

\* handleSend: the titles are refreshed, finally setSending(false).
handleSendRefreshed ==
    /\ chat.send # NULL
    /\ chat.send[1].stage = "refreshing"
    /\ chat' = [chat EXCEPT !.conversations = Existing, !.sending = FALSE, !.send = NULL]
    /\ UNCHANGED <<chatDb, outsideChat>>

NextChat ==
    \/ \E id \in 1..MaxConversations : selectConversation(id)
    \/ \E id \in 1..MaxConversations : selectConversationDone(id)
    \/ handleNew
    \/ handleNewDone
    \/ \E id \in 1..MaxConversations : handleDelete(id)
    \/ \E r \in chat.deleting : handleDeleteDone(r)
    \/ handleSend
    \/ handleSendCreated
    \/ handleSendLoaded
    \/ handleSendOk
    \/ handleSendFailed
    \/ handleSendRefreshed

SpecChat == InitClient /\ [][NextChat]_vars

\* C26: the user message and the AI reply appended when a send completes
\* are shown only in the conversation the message was sent to, whatever the
\* user selects, creates or deletes while the send is in flight.
C26_ReplyShownInItsConversation ==
    \A i \in DOMAIN chat.messages :
        chat.messages[i].id # "temp-user" => chat.messages[i].conv = chat.activeConvId

\* ---------------------------------------------------------------------
\* The single-file upload page and its polling
\* ---------------------------------------------------------------------

outsideSingle ==
    <<clientVars, attendanceVars, alertVars, except_documents_singleUpload>>

\* The condition under which the polling effect sets its interval.
shouldPoll(page) ==
    /\ page.result # NULL
    /\ page.uploading \/ page.result[1].extraction_status \in {"processing", "pending"}

\* The polling effect after a render: when result or uploading changed, the
\* old interval is cleared and a new one is set if the condition holds;
\* requests already sent are not cancelled.
pollingEffect(old, new) ==
    IF new.result # old.result \/ new.uploading # old.uploading
    THEN [new EXCEPT !.timer = shouldPoll(new)]
    ELSE new

\* handleUpload up to the answer of uploadDocument
handleUpload ==
    /\ ~singleUpload.uploading
    /\ ~singleUpload.upload
    /\ singleUpload' = pollingEffect(singleUpload,
           [singleUpload EXCEPT !.uploading = TRUE, !.result = NULL, !.upload = TRUE])
    /\ UNCHANGED <<documents, outsideSingle>>

\* uploadDocument answered with the new document: setResult(data).
handleUploadOk(id) ==
    /\ singleUpload.upload
    /\ documents[id] = "none"
    /\ documents' = [documents EXCEPT ![id] = "pending"]
    /\ singleUpload' = [singleUpload EXCEPT !.result = Some(Doc(id, "pending")),
                                           !.upload = FALSE,
                                           !.timer = shouldPoll([singleUpload EXCEPT
                                               !.result = Some(Doc(id, "pending"))])]
    /\ UNCHANGED outsideSingle

\* uploadDocument failed: setUploading(false).
handleUploadFailed ==
    /\ singleUpload.upload
    /\ singleUpload' = pollingEffect(singleUpload,
           [singleUpload EXCEPT !.uploading = FALSE, !.upload = FALSE])
    /\ UNCHANGED <<documents, outsideSingle>>

\* The interval fires: client.get(`/documents/${result.id}`) is sent.
pollTick ==
    /\ singleUpload.timer
    /\ singleUpload' = [singleUpload EXCEPT
           !.polls = @ \cup {Doc(singleUpload.result[1].id, "sent")}]
    /\ UNCHANGED <<documents, outsideSingle>>

\* The backend answers a poll with the document as it is now.
pollServed(id) ==
    /\ Doc(id, "sent") \in singleUpload.polls
    /\ singleUpload' = [singleUpload EXCEPT
           !.polls = (@ \ {Doc(id, "sent")}) \cup {Doc(id, documents[id])}]
    /\ UNCHANGED <<documents, outsideSingle>>

\* The callback after its await: setResult(data), and on done or failed
\* clearInterval(timer) and setUploading(false).
pollAnswered(data) ==
    /\ data \in singleUpload.polls
    /\ data.extraction_status # "sent"
    /\ LET final == data.extraction_status \in {"done", "failed"}
       IN  singleUpload' = [singleUpload EXCEPT
               !.polls = @ \ {data},
               !.result = Some(data),
               !.uploading = IF final THEN FALSE ELSE @,
               !.observed = IF final THEN @ \cup {data.id} ELSE @,
               !.timer = shouldPoll([singleUpload EXCEPT
                             !.result = Some(data),
                             !.uploading = IF final THEN FALSE ELSE @])]
    /\ UNCHANGED <<documents, outsideSingle>>

\* The request of a poll failed: clearInterval(timer), setUploading(false).
pollFailed(id) ==
    /\ Doc(id, "sent") \in singleUpload.polls
    /\ singleUpload' = pollingEffect(singleUpload,
           [singleUpload EXCEPT !.polls = @ \ {Doc(id, "sent")},
                                !.uploading = FALSE, !.timer = FALSE])
    /\ UNCHANGED <<documents, outsideSingle>>

NextSingle ==
    \/ handleUpload
    \/ \E id \in DocIds : handleUploadOk(id)
    \/ handleUploadFailed
    \/ \E id \in DocIds : extract(id) /\ UNCHANGED singleUpload
    \/ pollTick
    \/ \E id \in DocIds : pollServed(id)
    \/ \E data \in singleUpload.polls : pollAnswered(data)
    \/ \E id \in DocIds : pollFailed(id)

SpecSingle == InitClient /\ [][NextSingle]_vars

\* The page shows a document that a poll has observed as done or failed.
ObservedFinal ==
    /\ singleUpload.result # NULL
    /\ singleUpload.result[1].id \in singleUpload.observed

\* C27: once a poll has observed the document as done or failed, uploading
\* is false, the status shown never goes back to pending or processing, and
\* no further poll request is sent, also when answers of polls come late or
\* out of order.
C27_FinalStatusStays ==
    /\ [](ObservedFinal =>
             /\ ~singleUpload.uploading
             /\ singleUpload.result[1].extraction_status \in {"done", "failed"})
    /\ [][ObservedFinal =>
             \A id \in DocIds : Doc(id, "sent") \in singleUpload'.polls
                                    => Doc(id, "sent") \in singleUpload.polls]_vars

\* ---------------------------------------------------------------------
\* AttendancePage: actionLoading and the mark buttons
\* ---------------------------------------------------------------------

outsideAttendancePage ==
    <<clientVars, attendanceVars, alertVars, except_attendancePage>>

\* The stages of handleMark and handleDeleteSubject: the request, then
\* loadData, then loadAlerts.
Stages == 1..3

\* The handlers that have started and not finished.
Running ==
    attendancePage.marks[1] + attendancePage.marks[2] + attendancePage.marks[3]
    + attendancePage.deletes[1] + attendancePage.deletes[2] + attendancePage.deletes[3]

Move(counts, stage) ==
    IF stage = 3
    THEN [counts EXCEPT ![3] = @ - 1]
    ELSE [counts EXCEPT ![stage] = @ - 1, ![stage + 1] = @ + 1]

\* A click on a button of QuickMarkButtons: onClick={() => !loading && onMark(btn.id)},
\* then handleMark up to the answer of markAttendance.
handleMark ==
    /\ ~attendancePage.actionLoading
    /\ Running < MaxCalls
    /\ attendancePage' = [attendancePage EXCEPT !.actionLoading = TRUE, !.marks[1] = @ + 1]
    /\ UNCHANGED outsideAttendancePage

\* handleMark goes on after an await; after loadAlerts comes finally.
handleMarkNext(stage) ==
    /\ attendancePage.marks[stage] > 0
    /\ attendancePage' = [attendancePage EXCEPT
           !.marks = Move(@, stage),
           !.actionLoading = IF stage = 3 THEN FALSE ELSE @]
    /\ UNCHANGED outsideAttendancePage

\* markAttendance failed: catch, then finally.
handleMarkFailed ==
    /\ attendancePage.marks[1] > 0
    /\ attendancePage' = [attendancePage EXCEPT !.marks[1] = @ - 1, !.actionLoading = FALSE]
    /\ UNCHANGED outsideAttendancePage

\* A click on Delete, confirmed: the button is not disabled by loading.
handleDeleteSubject ==
    /\ Running < MaxCalls
    /\ attendancePage' = [attendancePage EXCEPT !.actionLoading = TRUE, !.deletes[1] = @ + 1]
    /\ UNCHANGED outsideAttendancePage

\* handleDeleteSubject goes on after an await; after loadAlerts comes finally.
handleDeleteSubjectNext(stage) ==
    /\ attendancePage.deletes[stage] > 0
    /\ attendancePage' = [attendancePage EXCEPT
           !.deletes = Move(@, stage),
           !.actionLoading = IF stage = 3 THEN FALSE ELSE @]
    /\ UNCHANGED outsideAttendancePage

\* deleteSubject failed: catch, then finally.
handleDeleteSubjectFailed ==
    /\ attendancePage.deletes[1] > 0
    /\ attendancePage' = [attendancePage EXCEPT !.deletes[1] = @ - 1, !.actionLoading = FALSE]
    /\ UNCHANGED outsideAttendancePage

NextAttendancePage ==
    \/ handleMark
    \/ \E stage \in Stages : handleMarkNext(stage)
    \/ handleMarkFailed
    \/ handleDeleteSubject
    \/ \E stage \in Stages : handleDeleteSubjectNext(stage)
    \/ handleDeleteSubjectFailed

SpecAttendancePage == InitClient /\ [][NextAttendancePage]_vars

\* C28: at most one mark-attendance request is in flight; from the start of
\* handleMark or handleDeleteSubject until it finishes no click issues
\* another markAttendance call; afterwards the buttons are enabled again.
C28_OneMarkAtATime ==
    /\ [](attendancePage.marks[1] <= 1)
    /\ [][attendancePage'.marks[1] > attendancePage.marks[1] => Running = 0]_vars
    /\ [](Running = 0 => ~attendancePage.actionLoading)

\* ---------------------------------------------------------------------
\* Dashboard: the unread alerts and "mark read"
\* ---------------------------------------------------------------------

AlertIds == {1, 2, 3}

outsideDashboard ==
    <<clientVars, attendanceVars, alertVars, except_dashboard>>

\* getAlerts(true) answered: the unread alerts of the backend are shown.
loadAlerts ==
    /\ dashboard' = [dashboard EXCEPT !.alerts = AlertIds \ dashboard.is_read]
    /\ UNCHANGED outsideDashboard

\* handleRefreshAlerts up to the answers of refreshAlerts and getAlerts
handleRefreshAlerts ==
    /\ ~dashboard.refreshing
    /\ dashboard' = [dashboard EXCEPT !.refreshing = TRUE]
    /\ UNCHANGED outsideDashboard

\* handleRefreshAlerts after its awaits: setAlerts(fresh.data), or the
\* toast of the catch; finally setRefreshing(false).
handleRefreshAlertsDone(ok) ==
    /\ dashboard.refreshing
    /\ dashboard' = [dashboard EXCEPT
           !.refreshing = FALSE,
           !.alerts = IF ok THEN AlertIds \ dashboard.is_read ELSE @]
    /\ UNCHANGED outsideDashboard

\* handleReadAlert up to the answer of markAlertRead
handleReadAlert(id) ==
    /\ id \in dashboard.alerts
    /\ id \notin dashboard.reading
    /\ dashboard' = [dashboard EXCEPT !.reading = @ \cup {id}]
    /\ UNCHANGED outsideDashboard

\* What handleReadAlert does to the list after its await, whether the
\* request succeeded or failed: .catch(() => { }) swallows the failure.
afterMarkAlertRead(alertList, id, accepted) ==
    alertList \ {id}

\* The backend accepted PATCH /alerts/{id}/read.
handleReadAlertOk(id) ==
    /\ id \in dashboard.reading
    /\ dashboard' = [dashboard EXCEPT
           !.reading = @ \ {id},
           !.is_read = @ \cup {id},
           !.alerts = afterMarkAlertRead(@, id, TRUE)]
    /\ UNCHANGED outsideDashboard

\* The request failed.
handleReadAlertFailed(id) ==
    /\ id \in dashboard.reading
    /\ dashboard' = [dashboard EXCEPT
           !.reading = @ \ {id},
           !.alerts = afterMarkAlertRead(@, id, FALSE)]
    /\ UNCHANGED outsideDashboard

NextDashboard ==
    \/ loadAlerts
    \/ handleRefreshAlerts
    \/ \E ok \in BOOLEAN : handleRefreshAlertsDone(ok)
    \/ \E id \in AlertIds : handleReadAlert(id)
    \/ \E id \in AlertIds : handleReadAlertOk(id)
    \/ \E id \in AlertIds : handleReadAlertFailed(id)

SpecDashboard == InitClient /\ [][NextDashboard]_vars

\* C29: "mark read" removes an alert from the unread list of the dashboard
\* only when the backend accepted the request; when the request fails the
\* alert stays in the list.
C29_RemovedOnlyWhenAccepted ==
    [][\A id \in dashboard.alerts \ dashboard'.alerts : id \in dashboard'.is_read]_vars
====
